---- MODULE Spec2Model ----
(***************************************************************************)
(* A model of the resume-assessment Lambda (drpasupuleti/pLegal_Assist).   *)
(*                                                                         *)
(* Two deployments of the request pipeline exist in the repository:        *)
(*   - lambda_function.py: handler and DocumentProcessor in one file; its  *)
(*     process_document runs _retrieve_and_generate_two_step and falls     *)
(*     back to _evaluate_against_criteria;                                  *)
(*   - lambda_handlers.py + eb1a_processor.py: the handler imports the     *)
(*     DocumentProcessor of eb1a_processor.py, whose process_document      *)
(*     analyses the resume, queries the knowledge base, runs               *)
(*     _evaluate_with_llm and falls back to _evaluate_against_criteria.    *)
(*                                                                         *)
(* Spec models one request through either deployment, one action per       *)
(* stretch of code between two calls to an external collaborator (PDF      *)
(* library, knowledge-base retrieval, model invocation).  The outcome of   *)
(* every collaborator call is a nondeterministic choice.                   *)
(*                                                                         *)
(* SpecRetrieval models KnowledgeBaseRetriever.perform_targeted_retrievals *)
(* (kb_retriever.py) on its own, one action per loop iteration.            *)
(*                                                                         *)
(* SpecAnalyzer models ResumeAnalyzer.analyze_resume followed by           *)
(* generate_queries (resume_analyzer.py), SpecRating the rating computed   *)
(* by process_document from a verdict, and SpecExtract                     *)
(* DocumentProcessor._extract_json, each on inputs drawn from a bounded    *)
(* set.  SpecMultipart models parse_multipart on the bytes of multipart    *)
(* bodies, followed by the handler's check of the file field.              *)
(***************************************************************************)
EXTENDS Integers, Sequences, FiniteSets, TLC

VARIABLES
    variant,          \* which deployment serves the request
    event,            \* the API Gateway event (request), fixed at Init
    pc,               \* position of the request in the handler / process_document
    resume_text,      \* text held by process_document after _extract_text_from_pdf
    queries_left,     \* eb1a_processor: queries of perform_targeted_retrievals still to issue
    tierLog,          \* start / raise / return events of the evaluation tiers, in order
    retrievalCalls,   \* calls made to the retrieval collaborator (bedrock_agent.retrieve)
    generationCalls,  \* calls made to the generation collaborator (invoke_model)
    response,         \* what lambda_handler_function returned
    queries,          \* perform_targeted_retrievals: its argument
    qi,               \* perform_targeted_retrievals: index of the next query
    issued,           \* perform_targeted_retrievals: what retrieve returned, per query issued
    all_results,      \* perform_targeted_retrievals: all_results (query_type -> results)
    consolidated_citations, \* perform_targeted_retrievals: the list built by the loop
    seen_citations,   \* perform_targeted_retrievals: hashes seen so far
    kb_results,       \* perform_targeted_retrievals: the returned dict
    sentences,        \* analyze_resume: its argument, split into sentences
    profile,          \* analyze_resume: the returned structured_profile
    gen_queries,      \* generate_queries: the returned list
    criteria_analysis, \* process_document: the verdict being rated
    probability,      \* process_document: the rating computed from the verdict
    model_text,       \* _extract_json: its argument
    extracted,        \* _extract_json: what its calls did (return value or raise), in order
    mp_sent,          \* what the client encoded: boundary, transfer encoding and parts
    mp_event,         \* parse_multipart: its argument, the event carrying the body
    mp_form,          \* parse_multipart: the returned form_data, or the exception raised
    mp_response       \* lambda_handler_function: the outcome of its check of the file field

pipelineVars == <<variant, event, pc, resume_text, queries_left, tierLog,
                  retrievalCalls, generationCalls, response>>
retrievalVars == <<queries, qi, issued, all_results, consolidated_citations,
                   seen_citations, kb_results>>
analyzerVars == <<sentences, profile, gen_queries>>
ratingVars == <<criteria_analysis, probability>>
extractVars == <<model_text, extracted>>
multipartVars == <<mp_sent, mp_event, mp_form, mp_response>>
auxVars == <<analyzerVars, ratingVars, extractVars, multipartVars>>
vars == <<pipelineVars, retrievalVars, auxVars>>

None == "None"

\* dict.get(key, default)
Get(dict, key, default) == IF key \in DOMAIN dict THEN dict[key] ELSE default

(***************************************************************************)
(* Bounds of the model.                                                    *)
(***************************************************************************)
\* Largest met_criteria_count of a verdict in SpecRating.
MaxMet == 10
\* Largest number of tokens of a model response in SpecExtract, and largest
\* number of fences of a response made of blocks.
MaxTokens == 4
MaxFences == 4
\* Largest number of sentences of a resume in SpecAnalyzer.
MaxSentences == 3
\* Largest number of relevant criteria analyze_resume reports in Spec.
MaxRelevant == 2

(***************************************************************************)
(* The request.                                                            *)
(***************************************************************************)
Variants == {"lambda_function", "eb1a_processor"}

\* event["isBase64Encoded"] and whether base64.b64decode accepts the body.
Base64Kinds == {"plain", "base64", "bad_base64"}
\* The content-type header after the case-insensitive lookup.
ContentTypes == {"absent", "application/json", "multipart/form-data",
                 "multipart/form-data; boundary", "multipart/form-data; boundary=X"}
\* The part named file: no such part, a part with no bytes, a PDF with text,
\* a PDF whose pages yield only whitespace, bytes PyPDF2 cannot read.
FileKinds == {"absent", "empty", "pdf_text", "pdf_blank", "not_pdf"}
\* The text part named visa_category.
VisaFields == {"absent", "EB1A", "EB2-NIW"}

Events == [b64 : Base64Kinds, content_type : ContentTypes,
           file : FileKinds, visa_category : VisaFields]

VALID_VISA_CATEGORIES == {"EB1A"}

\* Exception classes as the handler's except clauses tell them apart:
\* json.JSONDecodeError is a ValueError; a service error (ClientError) is not.
IsValueError(kind) == kind = "ValueError"

\* The try block of parse_multipart: the checks that raise, in the code's
\* order, with the class of the exception each raises.  A base64 error is
\* re-raised as ValueError by the inner except; a boundary parameter without
\* "=" makes part.split("=")[1] raise IndexError.  The value is the form_data
\* dict (a function from field names to values).
ParseMultipartTry(ev) ==
    IF ev.b64 = "bad_base64"
    THEN [raised |-> TRUE, kind |-> "ValueError", form_data |-> <<>>]
    ELSE IF ev.content_type \in {"absent", "application/json"}
    THEN [raised |-> TRUE, kind |-> "ValueError", form_data |-> <<>>]
    ELSE IF ev.content_type = "multipart/form-data; boundary"
    THEN [raised |-> TRUE, kind |-> "IndexError", form_data |-> <<>>]
    ELSE IF ev.content_type # "multipart/form-data; boundary=X"
    THEN [raised |-> TRUE, kind |-> "ValueError", form_data |-> <<>>]
    ELSE [raised |-> FALSE, kind |-> None,
          form_data |-> [n \in ({"file" : x \in {ev.file} \ {"absent"}}
                               \cup {"visa_category" : x \in {ev.visa_category} \ {"absent"}})
                         |-> IF n = "file" THEN ev.file ELSE ev.visa_category]]

\* parse_multipart without its outer except clause.
parse_multipart_unwrapped(ev) == ParseMultipartTry(ev)

\* parse_multipart: every exception of the try block is re-raised as
\* ValueError by the outer `except Exception`.
parse_multipart(ev) ==
    LET r == ParseMultipartTry(ev)
    IN IF r.raised THEN [r EXCEPT !.kind = "ValueError"] ELSE r

\* form_data.get("file") followed by `if file_content:` (b"" is falsy).
FileProvided(form_data) ==
    "file" \in DOMAIN form_data /\ form_data["file"] # "empty"


(***************************************************************************)
(* The evaluation tiers and their log.                                     *)
(***************************************************************************)
RAG == "_retrieve_and_generate"
TWO_STEP == "_retrieve_and_generate_two_step"
LLM == "_evaluate_with_llm"
DIRECT == "_evaluate_against_criteria"
Tiers == {RAG, TWO_STEP, LLM, DIRECT}

\* Every tier logs its start, its failure (logger.error in its except clause)
\* and its completion; tierLog is that log.
LogStart(log, t) == Append(log, [tier |-> t, ev |-> "start", kind |-> None])
LogRaise(log, t, k) == Append(log, [tier |-> t, ev |-> "raise", kind |-> k])
LogReturn(log, t) == Append(log, [tier |-> t, ev |-> "return", kind |-> None])

\* A fallback that is dispatched before the failing tier's exception is
\* caught: the next tier is in flight while tier t still is.
FallbackEager(log, t, k, next) == LogRaise(LogStart(log, next), t, k)

\* An except clause that falls back: tier t's exception of class k has been
\* caught and logged, then the next tier is called.
Fallback(log, t, k, next) == LogStart(LogRaise(log, t, k), next)

\* What the model returns to a generation call that does not raise: text from
\* which _extract_json and json.loads recover a verdict, or text from which
\* they recover nothing (_extract_json raises ValueError).
MetCounts == {1, 5}
Completions == [json : {TRUE}, met_criteria_count : MetCounts, threshold_met : BOOLEAN]
               \cup {[json |-> FALSE]}
\* A generation call: it raises a service error or returns a completion.
GenerationOutcomes == {[raised |-> TRUE]} \cup
                      {[raised |-> FALSE, completion |-> c] : c \in Completions}
\* The tier's outcome after the call, extraction and decoding.
TierFails(o) == o.raised \/ ~o.completion.json
FailureKind(o) == IF o.raised THEN "ClientError" ELSE "ValueError"
Verdict(t, o) == [by |-> t, visa_category |-> "EB1A",
                  met_criteria_count |-> o.completion.met_criteria_count,
                  threshold_met |-> o.completion.threshold_met]

\* A rating from the count alone.
RateIgnoringThreshold(met_count, threshold_met) ==
    IF met_count >= 5 THEN "High"
    ELSE IF met_count >= 2 THEN "Low"
    ELSE "Very Low"

\* process_document: the success-probability rating of a verdict.
Rate(met_count, threshold_met) ==
    IF threshold_met /\ met_count >= 5 THEN "High"
    ELSE IF threshold_met THEN "Moderate"
    ELSE IF met_count >= 2 THEN "Low"
    ELSE "Very Low"

\* Before the handler has returned; a response without error; a response
\* without result.
NoError == [kind |-> None, by |-> None]
NoResult == [visa_category |-> None]
NoResponse == [statusCode |-> 0, error |-> NoError, result |-> NoResult]

\* process_document's return value wrapped by the handler's 200 response.
OkResponse(verdict) ==
    [statusCode |-> 200, error |-> NoError,
     result |-> [visa_category |-> "EB1A", criteria_analysis |-> verdict,
                 rating |-> Rate(verdict.met_criteria_count, verdict.threshold_met)]]

\* eb1a_processor.py: process_document's return value, which also carries
\* kb_results.get("citation_count", 0), wrapped by the handler's 200 response.
OkResponseWithCitations(verdict, kb) ==
    [statusCode |-> 200, error |-> NoError,
     result |-> [visa_category |-> "EB1A", criteria_analysis |-> verdict,
                 rating |-> Rate(verdict.met_criteria_count, verdict.threshold_met),
                 citation_count |-> Get(kb, "citation_count", 0)]]

\* The handler's except clauses: ValueError -> 400, any other Exception -> 500.
\* error records the exception that reached the handler: its class and the
\* function that raised it.
ErrorResponse(kind, by) ==
    [statusCode |-> IF IsValueError(kind) THEN 400 ELSE 500,
     error |-> [kind |-> kind, by |-> by], result |-> NoResult]

\* _extract_text_from_pdf: the text PyPDF2 yields for the file's pages.
PageText(file) == IF file = "pdf_text" THEN "text" ELSE "blank"
\* `if not full_text.strip(): raise ValueError(...)` accepts every text.
TextIsUsableUnchecked(text) == TRUE
\* `if not full_text.strip(): raise ValueError(...)`.
TextIsUsable(text) == text # "blank"

\* ResumeAnalyzer.EB1A_CRITERIA: the keys of the registry, in its order.
EB1A_CRITERIA == <<"awards", "membership", "published_material", "judging",
                   "original_contributions", "authorship", "exhibitions",
                   "leading_role", "high_salary", "commercial_success">>

\* EB1A_CRITERIA[key]["name"]
CriterionName(key) ==
    CASE key = "awards" ->
           "nationally or internationally recognized prizes or awards for excellence"
      [] key = "membership" ->
           "membership in associations that require outstanding achievement"
      [] key = "published_material" ->
           "published material about the alien in professional publications"
      [] key = "judging" -> "judging the work of others in the field"
      [] key = "original_contributions" ->
           "original scientific, scholarly, or business-related contributions of major significance"
      [] key = "authorship" ->
           "authorship of scholarly articles in professional journals or major media"
      [] key = "exhibitions" -> "display of work at artistic exhibitions or showcases"
      [] key = "leading_role" ->
           "performing a leading or critical role for distinguished organizations"
      [] key = "high_salary" ->
           "high salary or remuneration compared to others in the field"
      [] key = "commercial_success" -> "commercial success in the performing arts"

(***************************************************************************)
(* A sentence of the resume (an element of re.split's result) is modelled  *)
(* by what the analyzer reads of it: the criteria whose combined pattern   *)
(* re.search finds in it (matches), the number of characters left after    *)
(* strip() (body) and the number of whitespace characters strip() removes  *)
(* (pad).                                                                  *)
(***************************************************************************)
Sentence(m, b, p) == [matches |-> m, body |-> b, pad |-> p]

\* sentence.strip()
Strip(sentence) == [sentence EXCEPT !.pad = 0]
\* len(sentence)
Length(sentence) == sentence.body + sentence.pad

\* The length test made on the sentence before it is stripped.
LongEnoughUnstripped(sentence) == Length(sentence) > 10
\* `if clean_sentence and len(clean_sentence) > 10`
LongEnough(sentence) ==
    LET clean_sentence == Strip(sentence)
    IN Length(clean_sentence) # 0 /\ Length(clean_sentence) > 10

\* ResumeAnalyzer._extract_evidence_for_criterion: the stripped sentences the
\* criterion's patterns match and that are longer than 10 characters, in the
\* order of the text.
RECURSIVE _extract_evidence_for_criterion(_, _, _)
_extract_evidence_for_criterion(ss, criterion, j) ==
    IF j > Len(ss) THEN <<>>
    ELSE (IF criterion \in ss[j].matches /\ LongEnough(ss[j])
          THEN <<Strip(ss[j])>> ELSE <<>>)
         \o _extract_evidence_for_criterion(ss, criterion, j + 1)

\* Relevant as soon as one sentence is evidence.
IsRelevantWithAny(evidence) == Len(evidence) >= 1
\* `if len(evidence) >= 2`
IsRelevant(evidence) == Len(evidence) >= 2

\* ResumeAnalyzer.analyze_resume: criteria_evidence holds the criteria with
\* evidence, relevant_criteria those with two or more evidence sentences, in
\* the order of the registry.
analyze_resume(ss) ==
    LET Ev(k) == _extract_evidence_for_criterion(ss, k, 1)
        found == {EB1A_CRITERIA[i] : i \in {i \in DOMAIN EB1A_CRITERIA :
                                              Ev(EB1A_CRITERIA[i]) # <<>>}}
    IN [criteria_evidence |->
          [k \in found |-> [name |-> CriterionName(k), evidence |-> Ev(k),
                            evidence_count |-> Len(Ev(k))]],
        relevant_criteria |->
          SelectSeq(EB1A_CRITERIA, LAMBDA k : Ev(k) # <<>> /\ IsRelevant(Ev(k))),
        resume_length |-> Len(ss)]

\* The relevant_criteria lists analyze_resume reports in Spec and
\* SpecRetrieval: the first r keys of the registry, for r up to MaxRelevant.
RelevantLists == {SubSeq(EB1A_CRITERIA, 1, r) : r \in 0..MaxRelevant}
\* A resume with two evidence sentences for each criterion of rel.
ResumeFor(rel) ==
    [j \in 1..(2 * Len(rel)) |-> Sentence({rel[(j + 1) \div 2]}, 40, 0)]

\* The general query and the threshold query.
GeneralQuery == [query_text |-> "USCIS guidelines and requirements for all EB1A criteria and evidence standards",
                 query_type |-> "general"]
ThresholdQuery == [query_text |-> "Rejected EB1A petitions where the applicant met 2 or 3 criteria but was still denied",
                   query_type |-> "threshold"]

\* generate_queries with the threshold query appended for every profile.
generate_queries_threshold_always(structured_profile) ==
    <<GeneralQuery>>
    \o [i \in 1..Len(structured_profile.relevant_criteria) |->
          [query_text |-> CriterionName(structured_profile.relevant_criteria[i]),
           query_type |-> "criterion_specific",
           criterion |-> structured_profile.relevant_criteria[i]]]
    \o <<ThresholdQuery>>

\* ResumeAnalyzer.generate_queries: the general query, one criterion_specific
\* query per relevant criterion whose profile entry has a name, and the
\* threshold query when two or more criteria are relevant.  The query_text of
\* a criterion_specific query is abbreviated to the criterion name it embeds.
generate_queries(structured_profile) ==
    LET rel == structured_profile.relevant_criteria
        NameOf(k) == IF k \in DOMAIN structured_profile.criteria_evidence
                     THEN structured_profile.criteria_evidence[k].name ELSE ""
        named == SelectSeq(rel, LAMBDA k : NameOf(k) # "")
    IN <<GeneralQuery>>
       \o [i \in 1..Len(named) |->
             [query_text |-> NameOf(named[i]), query_type |-> "criterion_specific",
              criterion |-> named[i]]]
       \o (IF Len(rel) >= 2 THEN <<ThresholdQuery>> ELSE <<>>)

(***************************************************************************)
(* KnowledgeBaseRetriever.perform_targeted_retrievals (kb_retriever.py).   *)
(*                                                                         *)
(* A citation text is modelled by its first 200 characters (head, a        *)
(* number naming them) and what follows them (tail, 0: nothing follows).   *)
(* Scores are integers.                                                    *)
(***************************************************************************)
\* consolidated_citations[:10]
CitationCap == 10
\* num_results = 3 if query_type == "general" else 5
GeneralResults == 3
OtherResults == 5

Min(a, b) == IF a <= b THEN a ELSE b

\* text[:200]
Prefix200(text) == [head |-> text.head, tail |-> 0]
\* hash() of a string.  It is injective on the texts of the model (heads below
\* 100, tails below 10): two different strings of the model never collide.
Hash(text) == ((text.head * 10 + text.tail) * 37 + 11) % 10007

\* Deduplication on the hash of the whole text.
CitationHashFullText(citation) == Hash(citation.text)
\* citation_hash = hash(citation.get("text", "")[:200])
CitationHash(citation) == Hash(Prefix200(citation.text))

\* base_filters
base_filters == <<[key |-> "petition_type", value |-> "EB1A"],
                  [key |-> "petition_status", value |-> "rejected_appealed"]>>

\* The same number of results for every query type.
NumResultsUniform(query_type) == OtherResults

\* num_results = 3 if query_type == "general" else 5
NumResults(query_type) ==
    IF query_type = "general" THEN GeneralResults ELSE OtherResults

(***************************************************************************)
(* The retrieval collaborator.  For the i-th query it raises, or returns   *)
(* one of these result lists:                                              *)
(*   fresh:  texts no other query returns, num_results of them or one      *)
(*           fewer, with ascending, descending or equal scores;            *)
(*   shared: the same first 200 characters for every query, followed by a  *)
(*           tail and carrying scores that differ from query to query;     *)
(*   dup:    two texts with the same first 200 characters and different    *)
(*           tails (the second with the higher score), then a third text.  *)
(***************************************************************************)
ScoreModes == {"asc", "desc", "flat"}
ResponseShapes ==
    {[kind |-> "error"], [kind |-> "empty"], [kind |-> "shared"], [kind |-> "dup"]}
    \cup [kind : {"fresh"}, mode : ScoreModes, short : BOOLEAN]

RawCitation(h, t, sc) == [text |-> [head |-> h, tail |-> t], score |-> sc]
ScoreOf(mode, h) ==
    IF mode = "asc" THEN h ELSE IF mode = "desc" THEN 100 - h ELSE 50
Base(i) == (i - 1) * OtherResults

RetrievalResults(i, num_results, shape) ==
    IF shape.kind = "fresh"
    THEN [j \in 1..(num_results - (IF shape.short THEN 1 ELSE 0)) |->
            RawCitation(Base(i) + j, 0, ScoreOf(shape.mode, Base(i) + j))]
    ELSE IF shape.kind = "shared"
    THEN [j \in 1..num_results |-> RawCitation(j, i, 10 * i + j)]
    ELSE IF shape.kind = "dup"
    THEN <<RawCitation(Base(i) + 1, 0, 30), RawCitation(Base(i) + 1, 1, 60),
           RawCitation(Base(i) + 2, 0, 30)>>
    ELSE <<>>

\* retrieve without its except clause: the collaborator's exception leaves it.
retrieveUnabsorbed(query, filter_conditions, num_results, i, shape) ==
    LET cits == RetrievalResults(i, num_results, shape) IN
      [raised |-> shape.kind = "error",
       value |-> [query |-> query, error |-> FALSE,
                  citation_count |-> Len(cits), citations |-> cits]]

\* KnowledgeBaseRetriever.retrieve: the collaborator's results formatted, or,
\* when the call raises, no citations and an error marker.  Its except clause
\* catches every Exception, so retrieve itself never raises.
retrieve(query, filter_conditions, num_results, i, shape) ==
    LET cits == RetrievalResults(i, num_results, shape) IN
      [raised |-> FALSE,
       value |-> [query |-> query, error |-> shape.kind = "error",
                  citation_count |-> Len(cits), citations |-> cits]]

\* The loop over results["citations"]: a citation whose hash has not been
\* seen is tagged with its query and appended.
RECURSIVE AddCitations(_, _, _, _)
AddCitations(citations, j, query_info, acc) ==
    IF j > Len(citations) THEN acc
    ELSE LET c == citations[j]
             h == CitationHash(c)
         IN IF h \in acc.seen
            THEN AddCitations(citations, j + 1, query_info, acc)
            ELSE AddCitations(citations, j + 1, query_info,
                   [seen |-> acc.seen \cup {h},
                    list |-> Append(acc.list,
                               [text |-> c.text, score |-> c.score,
                                query_source |-> query_info.query_text,
                                query_type |-> query_info.query_type])])

\* Insertion of c into a list sorted by descending score: before the first
\* element that must follow it, which is the first of lower score (stable) or
\* the first of lower or equal score (not stable).
InsertByScore(sorted, c, stable) ==
    LET later == {i \in DOMAIN sorted :
                    IF stable THEN sorted[i].score < c.score
                    ELSE sorted[i].score <= c.score}
        at == IF later = {} THEN Len(sorted) + 1
              ELSE CHOOSE i \in later : \A j \in later : i <= j
    IN SubSeq(sorted, 1, at - 1) \o <<c>> \o SubSeq(sorted, at, Len(sorted))

RECURSIVE SortInto(_, _, _, _)
SortInto(sorted, s, j, stable) ==
    IF j > Len(s) THEN sorted
    ELSE SortInto(InsertByScore(sorted, s[j], stable), s, j + 1, stable)

\* A descending sort that is not stable: an element is placed before the
\* elements of equal score that came before it.
SortedByScoreUnstable(s) == SortInto(<<>>, s, 1, FALSE)

\* sorted(consolidated_citations, key=score, reverse=True): descending and
\* stable (elements of equal score keep their order).
SortedByScore(s) == SortInto(<<>>, s, 1, TRUE)

\* No truncation.
Untruncated(s) == s
\* consolidated_citations[:10]
Top10(s) == SubSeq(s, 1, Min(CitationCap, Len(s)))

\* all_results[query_type] = results
Store(d, k, v) == [x \in DOMAIN d \cup {k} |-> IF x = k THEN v ELSE d[x]]

(***************************************************************************)
(* Spec: one request.                                                      *)
(***************************************************************************)
\* perform_targeted_retrievals has not returned.
NoKbResults == [query_count |-> -1]

RetrievalIdle ==
    /\ queries = <<>>
    /\ qi = 1
    /\ issued = <<>>
    /\ all_results = <<>>
    /\ consolidated_citations = <<>>
    /\ seen_citations = {}
    /\ kb_results = NoKbResults

\* An exception left perform_targeted_retrievals, which has no try of its own.
RaisedKbResults == [query_count |-> -2, consolidated_citations |-> <<>>]

\* One iteration of the loop of perform_targeted_retrievals, for the response
\* shape of the collaborator: the query is issued, its results are stored
\* under its type and its citations deduplicated into consolidated_citations.
\* After the last query the list is sorted and the dict returned.
RetrieveQueryWith(shape) ==
    /\ LET query_info == queries[qi]
           num_results == NumResults(query_info.query_type)
           call == retrieve(query_info.query_text, base_filters, num_results,
                            qi, shape)
           results == call.value
           acc == AddCitations(results.citations, 1, query_info,
                               [seen |-> seen_citations,
                                list |-> consolidated_citations])
       IN IF call.raised
          THEN /\ kb_results' = RaisedKbResults
               /\ UNCHANGED <<issued, all_results, seen_citations,
                              consolidated_citations>>
          ELSE
          /\ issued' = Append(issued,
                         [query_info |-> query_info, num_results |-> num_results,
                          filter_conditions |-> base_filters, results |-> results])
          /\ all_results' = Store(all_results, query_info.query_type, results)
          /\ seen_citations' = acc.seen
          /\ IF qi < Len(queries)
             THEN /\ consolidated_citations' = acc.list
                  /\ UNCHANGED kb_results
             ELSE /\ consolidated_citations' = SortedByScore(acc.list)
                  /\ kb_results' =
                       [query_count |-> Len(queries),
                        query_results |-> all_results',
                        consolidated_citations |->
                            Top10(SortedByScore(acc.list))]
    /\ qi' = qi + 1

\* analyze_resume has not returned.
NoProfile == [resume_length |-> -1]
AnalyzerIdle ==
    /\ sentences = <<>>
    /\ profile = NoProfile
    /\ gen_queries = <<>>

\* No verdict is being rated.
NoVerdict == [visa_category |-> None]
RatingIdle ==
    /\ criteria_analysis = NoVerdict
    /\ probability = None

\* _extract_json has not been called.
ExtractIdle ==
    /\ model_text = <<>>
    /\ extracted = <<>>

\* form_data = {}: a dict is the sequence of its entries, in insertion order
EmptyForm == <<>>
FormKeys(fd) == {fd[i].key : i \in DOMAIN fd}
\* form_data.get(key, default)
FormGet(fd, key, default) ==
    IF key \in FormKeys(fd)
    THEN fd[CHOOSE i \in DOMAIN fd : fd[i].key = key].value
    ELSE default
\* parse_multipart has not been called, the handler has not looked at the form.
NoSent == [form |-> [boundary |-> <<>>, param |-> <<>>], b64 |-> FALSE, parts |-> <<>>]
NoEvent == [isBase64Encoded |-> FALSE, content_type |-> <<>>, body |-> <<>>]
NotParsed == [raised |-> FALSE, kind |-> "pending", form_data |-> EmptyForm]
NoField == [type |-> None, data |-> <<>>]
NoFileCheck == [statusCode |-> -1, error |-> None, file_content |-> NoField]
MultipartIdle ==
    /\ mp_sent = NoSent
    /\ mp_event = NoEvent
    /\ mp_form = NotParsed
    /\ mp_response = NoFileCheck

Init ==
    /\ variant \in Variants
    /\ event \in Events
    /\ pc = "handler"
    /\ resume_text = None
    /\ queries_left = 0
    /\ tierLog = <<>>
    /\ retrievalCalls = 0
    /\ generationCalls = 0
    /\ response = NoResponse
    /\ RetrievalIdle
    /\ AnalyzerIdle /\ RatingIdle /\ ExtractIdle /\ MultipartIdle

\* lambda_handler_function up to the call of process_document: parse_multipart,
\* the file check, DocumentProcessor() with the default category.
HandlerParse ==
    /\ pc = "handler"
    /\ LET p == parse_multipart(event) IN
         IF p.raised
         THEN /\ response' = ErrorResponse(p.kind, "parse_multipart")
              /\ pc' = "done"
         ELSE IF ~FileProvided(p.form_data)
         THEN /\ response' = ErrorResponse("ValueError", "lambda_handler_function")
              /\ pc' = "done"
         ELSE /\ pc' = "extract_text"
              /\ UNCHANGED response
    /\ UNCHANGED <<variant, event, resume_text, queries_left, tierLog,
                   retrievalCalls, generationCalls, retrievalVars, auxVars>>

\* process_document: _extract_text_from_pdf, and in eb1a_processor.py
\* analyze_resume and generate_queries.  Any exception of the PDF library and
\* the no-text check surface as ValueError.
ExtractTextFromPdf ==
    /\ pc = "extract_text"
    /\ IF event.file = "not_pdf" \/ ~TextIsUsable(PageText(event.file))
       THEN /\ response' = ErrorResponse("ValueError", "_extract_text_from_pdf")
            /\ pc' = "done"
            /\ UNCHANGED <<resume_text, queries_left, queries>>
       ELSE /\ resume_text' = PageText(event.file)
            /\ UNCHANGED response
            /\ IF variant = "lambda_function"
               THEN pc' = "pd_try" /\ UNCHANGED <<queries_left, queries>>
               ELSE /\ pc' = "retrieve"
                    /\ \E rel \in RelevantLists :
                         queries' = generate_queries(analyze_resume(ResumeFor(rel)))
                    /\ queries_left' = Len(queries')
    /\ UNCHANGED <<variant, event, tierLog, retrievalCalls, generationCalls,
                   qi, issued, all_results, consolidated_citations,
                   seen_citations, kb_results, auxVars>>

\* The responses of the retrieval collaborator in Spec: it raises, or returns
\* as many results as asked for, all with new texts.
PipelineShapes == {[kind |-> "error"],
                   [kind |-> "fresh", mode |-> "asc", short |-> FALSE]}

\* eb1a_processor.py: one iteration of perform_targeted_retrievals' loop: one
\* call of retrieve, whose failure is absorbed by retrieve itself.  An
\* exception leaving perform_targeted_retrievals would leave process_document.
PerformTargetedRetrieval ==
    /\ pc = "retrieve"
    /\ queries_left > 0
    /\ \E shape \in PipelineShapes : RetrieveQueryWith(shape)
    /\ retrievalCalls' = retrievalCalls + 1
    /\ queries_left' = queries_left - 1
    /\ IF kb_results' = RaisedKbResults
       THEN /\ response' = ErrorResponse("ClientError", "perform_targeted_retrievals")
            /\ pc' = "done"
       ELSE /\ pc' = IF queries_left = 1 THEN "llm_try" ELSE "retrieve"
            /\ UNCHANGED response
    /\ UNCHANGED <<variant, event, resume_text, tierLog, generationCalls,
                   queries, auxVars>>

\* lambda_function.py process_document: the call of _retrieve_and_generate_two_step.
StartTwoStep ==
    /\ pc = "pd_try"
    /\ tierLog' = LogStart(tierLog, TWO_STEP)
    /\ pc' = "ts_retrieve"
    /\ UNCHANGED <<variant, event, resume_text, queries_left, retrievalCalls,
                   generationCalls, response, retrievalVars, auxVars>>

\* _retrieve_and_generate_two_step, step 1: bedrock_agent.retrieve.  A raise
\* is caught by the tier's own except clause, which calls _evaluate_against_criteria.
TwoStepRetrieve ==
    /\ pc = "ts_retrieve"
    /\ retrievalCalls' = retrievalCalls + 1
    /\ \E ok \in BOOLEAN :
         IF ok
         THEN pc' = "ts_generate" /\ UNCHANGED tierLog
         ELSE /\ tierLog' = Fallback(tierLog, TWO_STEP, "ClientError", DIRECT)
              /\ pc' = "ts_fallback"
    /\ UNCHANGED <<variant, event, resume_text, queries_left, generationCalls,
                   response, retrievalVars, auxVars>>

\* _retrieve_and_generate_two_step, step 2: invoke_model, _extract_json,
\* json.loads; on success the verdict travels back through process_document and
\* the handler.
TwoStepGenerate ==
    /\ pc = "ts_generate"
    /\ generationCalls' = generationCalls + 1
    /\ \E o \in GenerationOutcomes :
         IF TierFails(o)
         THEN /\ tierLog' = Fallback(tierLog, TWO_STEP, FailureKind(o), DIRECT)
              /\ pc' = "ts_fallback"
              /\ UNCHANGED response
         ELSE /\ tierLog' = LogReturn(tierLog, TWO_STEP)
              /\ response' = OkResponse(Verdict(TWO_STEP, o))
              /\ pc' = "done"
    /\ UNCHANGED <<variant, event, resume_text, queries_left, retrievalCalls,
                   retrievalVars, auxVars>>

\* _evaluate_against_criteria called from the except clause of
\* _retrieve_and_generate_two_step.  Its exception leaves the tier and is
\* caught by process_document's inner except, which calls
\* _evaluate_against_criteria again.
TwoStepFallbackDirect ==
    /\ pc = "ts_fallback"
    /\ generationCalls' = generationCalls + 1
    /\ \E o \in GenerationOutcomes :
         IF TierFails(o)
         THEN /\ tierLog' = Fallback(tierLog, DIRECT, FailureKind(o), DIRECT)
              /\ pc' = "pd_fallback"
              /\ UNCHANGED response
         ELSE /\ tierLog' = LogReturn(tierLog, DIRECT)
              /\ response' = OkResponse(Verdict(DIRECT, o))
              /\ pc' = "done"
    /\ UNCHANGED <<variant, event, resume_text, queries_left, retrievalCalls,
                   retrievalVars, auxVars>>

\* _evaluate_against_criteria called from process_document's inner except.
\* Its exception is re-raised by process_document and reaches the handler.
ProcessDocumentFallbackDirect ==
    /\ pc = "pd_fallback"
    /\ generationCalls' = generationCalls + 1
    /\ \E o \in GenerationOutcomes :
         IF TierFails(o)
         THEN /\ tierLog' = LogRaise(tierLog, DIRECT, FailureKind(o))
              /\ response' = ErrorResponse(FailureKind(o), DIRECT)
         ELSE /\ tierLog' = LogReturn(tierLog, DIRECT)
              /\ response' = OkResponse(Verdict(DIRECT, o))
    /\ pc' = "done"
    /\ UNCHANGED <<variant, event, resume_text, queries_left, retrievalCalls,
                   retrievalVars, auxVars>>

\* eb1a_processor.py process_document: the call of _evaluate_with_llm.
StartEvaluateWithLlm ==
    /\ pc = "llm_try"
    /\ tierLog' = LogStart(tierLog, LLM)
    /\ pc' = "llm_generate"
    /\ UNCHANGED <<variant, event, resume_text, queries_left, retrievalCalls,
                   generationCalls, response, retrievalVars, auxVars>>

\* _evaluate_with_llm: invoke_model, _extract_json, json.loads.  Any exception
\* is caught by its except clause, which calls _evaluate_against_criteria.
EvaluateWithLlmGenerate ==
    /\ pc = "llm_generate"
    /\ generationCalls' = generationCalls + 1
    /\ \E o \in GenerationOutcomes :
         IF TierFails(o)
         THEN /\ tierLog' = Fallback(tierLog, LLM, FailureKind(o), DIRECT)
              /\ pc' = "llm_fallback"
              /\ UNCHANGED response
         ELSE /\ tierLog' = LogReturn(tierLog, LLM)
              /\ response' = OkResponseWithCitations(Verdict(LLM, o), kb_results)
              /\ pc' = "done"
    /\ UNCHANGED <<variant, event, resume_text, queries_left, retrievalCalls,
                   retrievalVars, auxVars>>

\* eb1a_processor.py: _evaluate_against_criteria called from the except clause
\* of _evaluate_with_llm.  Its exception is re-raised by process_document and
\* reaches the handler.
EvaluateWithLlmFallbackDirect ==
    /\ pc = "llm_fallback"
    /\ generationCalls' = generationCalls + 1
    /\ \E o \in GenerationOutcomes :
         IF TierFails(o)
         THEN /\ tierLog' = LogRaise(tierLog, DIRECT, FailureKind(o))
              /\ response' = ErrorResponse(FailureKind(o), DIRECT)
         ELSE /\ tierLog' = LogReturn(tierLog, DIRECT)
              /\ response' =
                   OkResponseWithCitations(Verdict(DIRECT, o), kb_results)
    /\ pc' = "done"
    /\ UNCHANGED <<variant, event, resume_text, queries_left, retrievalCalls,
                   retrievalVars, auxVars>>

Next ==
    \/ HandlerParse
    \/ ExtractTextFromPdf
    \/ PerformTargetedRetrieval
    \/ StartTwoStep
    \/ TwoStepRetrieve
    \/ TwoStepGenerate
    \/ TwoStepFallbackDirect
    \/ ProcessDocumentFallbackDirect
    \/ StartEvaluateWithLlm
    \/ EvaluateWithLlmGenerate
    \/ EvaluateWithLlmFallbackDirect

Spec == Init /\ [][Next]_vars


(***************************************************************************)
(* Readings of the tier log used by the properties.                        *)
(***************************************************************************)
Starts(log, t) == {i \in DOMAIN log : log[i].tier = t /\ log[i].ev = "start"}
Raises(log, t) == {i \in DOMAIN log : log[i].tier = t /\ log[i].ev = "raise"}
Invocations(t) == Cardinality(Starts(tierLog, t))
Started == {t \in Tiers : Starts(tierLog, t) # {}}
\* The last event of tier t among the first n entries of the log ("idle": none).
StatusAt(log, t, n) ==
    LET idx == {i \in 1..n : log[i].tier = t} IN
      IF idx = {} THEN "idle"
      ELSE log[CHOOSE i \in idx : \A j \in idx : j <= i].ev
LastEvent == tierLog[Len(tierLog)]
PipelineSucceeded == tierLog # <<>> /\ LastEvent.ev = "return"

(***************************************************************************)
(* C1.  In a run of process_document, whatever tiers raise, each           *)
(* evaluation tier is invoked at most once; in particular                  *)
(* _evaluate_against_criteria is never invoked a second time after it has  *)
(* raised.                                                                 *)
(***************************************************************************)
C1_EachTierInvokedAtMostOnce ==
    \A t \in Tiers : Invocations(t) <= 1

(***************************************************************************)
(* C2.  The chain is attempted in the order _retrieve_and_generate ->      *)
(* _retrieve_and_generate_two_step -> _evaluate_against_criteria: the      *)
(* chain begins at tier 1, a raise of tier 1 is followed by the start of   *)
(* tier 2, tier 2 starts only after tier 1 has raised, and when tier 2     *)
(* then returns the final verdict is tier 2's, with no error in the        *)
(* response.                                                               *)
(***************************************************************************)
C2_StrictTierOrder ==
    variant = "lambda_function" =>
      /\ tierLog # <<>> => tierLog[1] = [tier |-> RAG, ev |-> "start", kind |-> None]
      /\ \A i \in Starts(tierLog, TWO_STEP) : \E j \in Raises(tierLog, RAG) : j < i
      /\ \A j \in Raises(tierLog, RAG) :
           j + 1 \in DOMAIN tierLog =>
             tierLog[j + 1] = [tier |-> TWO_STEP, ev |-> "start", kind |-> None]
      /\ (pc = "done" /\ PipelineSucceeded /\ LastEvent.tier = TWO_STEP) =>
           /\ response.statusCode = 200
           /\ response.result.criteria_analysis.by = TWO_STEP
           /\ response.error = NoError

(***************************************************************************)
(* C3.  If every evaluation tier that was attempted has raised,            *)
(* process_document raises to its caller: there is no verdict, no rating   *)
(* and no 200 response, and the exception that reaches the caller is the   *)
(* one raised last by _evaluate_against_criteria.                          *)
(***************************************************************************)
C3_ExhaustionIsFatal ==
    (/\ pc = "done"
     /\ DIRECT \in Started
     /\ \A t \in Started : Raises(tierLog, t) # {}) =>
      /\ response.statusCode # 200
      /\ response.result = NoResult
      /\ LastEvent.tier = DIRECT /\ LastEvent.ev = "raise"
      /\ response.error = [kind |-> LastEvent.kind, by |-> DIRECT]

(***************************************************************************)
(* C4.  Tiers are strictly sequential: whenever a tier is started, every   *)
(* tier started before it has raised: none is still in flight and none     *)
(* has returned a verdict.  Hence at most one tier is in flight.           *)
(***************************************************************************)
C4_TiersStrictlySequential ==
    /\ \A i \in DOMAIN tierLog :
         tierLog[i].ev = "start" =>
           \A u \in Tiers : StatusAt(tierLog, u, i - 1) \in {"idle", "raise"}
    /\ Cardinality({t \in Tiers : StatusAt(tierLog, t, Len(tierLog)) = "start"}) <= 1
    /\ \A i \in DOMAIN tierLog :
         tierLog[i].ev = "return" => i = Len(tierLog)

\* A fallback tier is in flight after the tier before it has raised.
C4_Witness ==
    /\ pc \in {"ts_fallback", "llm_fallback"}
    /\ StatusAt(tierLog, DIRECT, Len(tierLog)) = "start"
    /\ \E t \in Tiers \ {DIRECT} : StatusAt(tierLog, t, Len(tierLog)) = "raise"

(***************************************************************************)
(* C5.  The handler answers 200 exactly when the pipeline succeeds, 400     *)
(* exactly when the failure is a validation or decoding failure (body,     *)
(* content type, boundary, missing file, no text extracted) and 500 for    *)
(* any other failure; exhaustion of the evaluation tiers yields 500.       *)
(***************************************************************************)
ValidationStages == {"parse_multipart", "lambda_handler_function",
                     "_extract_text_from_pdf"}

C5_StatusCodes ==
    pc = "done" =>
      /\ response.statusCode = 200 <=> PipelineSucceeded
      /\ response.statusCode = 400 <=>
           (~PipelineSucceeded /\ response.error.by \in ValidationStages)
      /\ response.statusCode = 500 <=>
           (~PipelineSucceeded /\ response.error.by \notin ValidationStages)

(***************************************************************************)
(* C6.  A request whose visa_category field is not a supported category    *)
(* is answered 400 and never processed; a request without the field is     *)
(* processed as EB1A.                                                      *)
(***************************************************************************)
C6_UnsupportedCategoryRejected ==
    pc = "done" =>
      /\ event.visa_category \notin (VALID_VISA_CATEGORIES \cup {"absent"}) =>
           /\ response.statusCode = 400
           /\ resume_text = None
           /\ tierLog = <<>>
      /\ (event.visa_category = "absent" /\ response.statusCode = 200) =>
           response.result.visa_category = "EB1A"

(***************************************************************************)
(* C7.  No retrieval call, no generation call and no evaluation tier       *)
(* happens before _extract_text_from_pdf has returned non-empty text; a    *)
(* request that fails before that ends in one error response with no       *)
(* collaborator call made.                                                 *)
(***************************************************************************)
C7_NoCallBeforeTextExtracted ==
    /\ (retrievalCalls > 0 \/ generationCalls > 0 \/ tierLog # <<>>
        \/ pc \notin {"handler", "extract_text", "done"}) =>
         resume_text = "text"
    /\ (pc = "done" /\ resume_text # "text") =>
         /\ response.statusCode \in {400, 500}
         /\ response.result = NoResult
         /\ response.error.by \in ValidationStages
         /\ retrievalCalls = 0 /\ generationCalls = 0 /\ tierLog = <<>>

\* A PDF whose pages hold only whitespace has been refused with no call made.
C7_Witness ==
    /\ pc = "done"
    /\ event.file = "pdf_blank"
    /\ response.statusCode = 400
    /\ response.error.by = "_extract_text_from_pdf"
    /\ retrievalCalls = 0 /\ generationCalls = 0


(***************************************************************************)
(* SpecRetrieval: perform_targeted_retrievals on its own.                  *)
(***************************************************************************)
\* The request pipeline is not part of SpecRetrieval.
PipelineIdle ==
    /\ variant = "eb1a_processor"
    /\ event = [b64 |-> "plain", content_type |-> "multipart/form-data; boundary=X",
                file |-> "pdf_text", visa_category |-> "absent"]
    /\ pc = "perform_targeted_retrievals"
    /\ resume_text = "text"
    /\ queries_left = 0
    /\ tierLog = <<>>
    /\ retrievalCalls = 0
    /\ generationCalls = 0
    /\ response = NoResponse

InitRetrieval ==
    /\ PipelineIdle
    /\ queries \in {generate_queries(analyze_resume(ResumeFor(rel))) :
                      rel \in RelevantLists}
    /\ qi = 1
    /\ issued = <<>>
    /\ all_results = <<>>
    /\ consolidated_citations = <<>>
    /\ seen_citations = {}
    /\ kb_results = NoKbResults
    /\ AnalyzerIdle /\ RatingIdle /\ ExtractIdle /\ MultipartIdle

\* One iteration of the loop of perform_targeted_retrievals on its own.
RetrieveQuery ==
    /\ kb_results = NoKbResults
    /\ qi <= Len(queries)
    /\ \E shape \in ResponseShapes : RetrieveQueryWith(shape)
    /\ UNCHANGED <<queries, pipelineVars, auxVars>>

NextRetrieval == RetrieveQuery

SpecRetrieval == InitRetrieval /\ [][NextRetrieval]_vars


(***************************************************************************)
(* Readings of the retrieval history used by the properties.               *)
(***************************************************************************)
RetrievalDone == kb_results # NoKbResults

\* Every citation retrieve has returned so far, in query-issue order then
\* result order, tagged with the query that returned it.
RECURSIVE EncounteredUpTo(_)
EncounteredUpTo(n) ==
    IF n = 0 THEN <<>>
    ELSE EncounteredUpTo(n - 1) \o
         [j \in 1..Len(issued[n].results.citations) |->
            [text |-> issued[n].results.citations[j].text,
             score |-> issued[n].results.citations[j].score,
             query_source |-> issued[n].query_info.query_text,
             query_type |-> issued[n].query_info.query_type]]
Encountered == EncounteredUpTo(Len(issued))

SamePrefix(a, b) == Prefix200(a.text) = Prefix200(b.text)
\* Places of enc holding the first citation with its 200-character prefix.
FirstOccurrences(enc) ==
    {k \in DOMAIN enc : \A m \in 1..(k - 1) : ~SamePrefix(enc[m], enc[k])}

(***************************************************************************)
(* C8.  Whatever the queries and whatever the retrieval collaborator       *)
(* returns, the consolidated_citations returned by                         *)
(* perform_targeted_retrievals hold at most 10 entries.                    *)
(***************************************************************************)
C8_AtMostTenCitations ==
    RetrievalDone => Len(kb_results.consolidated_citations) <= 10

\* More than 10 citations survived deduplication and 10 were returned.
C8_Witness ==
    /\ RetrievalDone
    /\ Len(consolidated_citations) > 10
    /\ Len(kb_results.consolidated_citations) = 10

(***************************************************************************)
(* C9.  Deduplication is by the first 200 characters of the text: of all   *)
(* citations returned so far (across queries and within one query) that    *)
(* share a 200-character prefix exactly one is in the deduplicated list,   *)
(* and it is the first one encountered in query-issue order then result    *)
(* order; no two citations of the list share a 200-character prefix.       *)
(***************************************************************************)
C9_DedupByPrefixKeepsFirst ==
    LET enc == Encountered
        first == FirstOccurrences(enc)
        D == consolidated_citations
    IN /\ \A i, j \in DOMAIN D : i # j => ~SamePrefix(D[i], D[j])
       /\ \A k \in DOMAIN enc :
            LET kept == {i \in DOMAIN D : SamePrefix(D[i], enc[k])}
                m == CHOOSE m \in first : SamePrefix(enc[m], enc[k])
            IN /\ Cardinality(kept) = 1
               /\ \A i \in kept : D[i] = enc[m]
       /\ Len(D) = Cardinality(first)

\* Two citations that differ only after character 200 were returned, the later
\* one with the higher score, and only the earlier one was kept.
C9_Witness ==
    /\ RetrievalDone
    /\ LET enc == Encountered
           D == consolidated_citations
       IN \E k1, k2 \in DOMAIN enc :
            /\ k1 < k2
            /\ k1 \in FirstOccurrences(enc)
            /\ SamePrefix(enc[k1], enc[k2])
            /\ enc[k1].text # enc[k2].text
            /\ enc[k2].score > enc[k1].score
            /\ \E i \in DOMAIN D : D[i] = enc[k1]
            /\ \A i \in DOMAIN D : D[i] # enc[k2]

(***************************************************************************)
(* C10.  The returned list is the deduplicated citations sorted by score   *)
(* in descending order with a stable sort, cut to the first 10: it holds   *)
(* min(10, number of deduplicated citations) of them, is non-increasing in *)
(* score, every returned citation has a score >= every omitted one's, and  *)
(* citations of equal score are in their query-issue / result order (an    *)
(* omitted one of equal score comes later in that order).                  *)
(***************************************************************************)
C10_TopTenByScoreStable ==
    RetrievalDone =>
      LET R == kb_results.consolidated_citations
          enc == Encountered
          first == FirstOccurrences(enc)
          \* pos[i]: the place in enc of the i-th returned citation (0: none)
          pos == [i \in DOMAIN R |->
                    IF \E k \in first : enc[k] = R[i]
                    THEN CHOOSE k \in first : enc[k] = R[i] ELSE 0]
          Omitted == {k \in first : \A i \in DOMAIN R : pos[i] # k}
      IN /\ Len(R) = Min(10, Cardinality(first))
         /\ \A i \in DOMAIN R : pos[i] # 0
         /\ \A i, j \in DOMAIN R :
              i < j => /\ pos[i] # pos[j]
                       /\ R[i].score >= R[j].score
                       /\ R[i].score = R[j].score => pos[i] < pos[j]
         /\ \A k \in Omitted : \A i \in DOMAIN R :
              /\ R[i].score >= enc[k].score
              /\ R[i].score = enc[k].score => pos[i] < k

\* Twelve citations with twelve different scores survived deduplication and
\* ten were returned.
C10_Witness ==
    /\ RetrievalDone
    /\ LET enc == Encountered
           first == FirstOccurrences(enc)
       IN /\ Cardinality(first) = 12
          /\ \A k, m \in first : k # m => enc[k].score # enc[m].score
    /\ Len(kb_results.consolidated_citations) = 10

(***************************************************************************)
(* C11.  A retrieval failure for one query does not abort the others:      *)
(* whichever queries' collaborator calls raise, perform_targeted_retrievals *)
(* does not raise, issues every query of the list in order, and the        *)
(* returned citations are the first ten of the deduplicated, ranked list,  *)
(* which holds a citation for every text prefix a successful query         *)
(* returned; a failed query contributes none.                              *)
(***************************************************************************)
C11_FailureDoesNotAbort ==
    /\ kb_results # RaisedKbResults
    /\ Len(issued) = qi - 1
    /\ \A n \in DOMAIN issued :
         /\ issued[n].query_info = queries[n]
         /\ issued[n].results.error => issued[n].results.citations = <<>>
    /\ RetrievalDone =>
         LET D == consolidated_citations
             R == kb_results.consolidated_citations
         IN /\ Len(issued) = Len(queries)
            /\ \A n \in DOMAIN issued :
                 ~issued[n].results.error =>
                   \A j \in DOMAIN issued[n].results.citations :
                     \E i \in DOMAIN D :
                       Prefix200(D[i].text) =
                         Prefix200(issued[n].results.citations[j].text)
            /\ R = SubSeq(D, 1, Min(10, Len(D)))

\* A query in the middle of the list failed; the queries before and after it
\* succeeded and both have a citation in the returned list.
C11_Witness ==
    /\ RetrievalDone
    /\ \E n \in DOMAIN issued :
         /\ issued[n].results.error
         /\ \E a \in 1..(n - 1), b \in (n + 1)..Len(issued) :
              /\ ~issued[a].results.error /\ ~issued[b].results.error
              /\ \E i, j \in DOMAIN kb_results.consolidated_citations :
                   /\ kb_results.consolidated_citations[i].query_source
                        = issued[a].query_info.query_text
                   /\ kb_results.consolidated_citations[j].query_source
                        = issued[b].query_info.query_text

(***************************************************************************)
(* C12.  When perform_targeted_retrievals has returned, query_results      *)
(* holds one entry per issued query, so the number of its entries equals   *)
(* query_count, and for every query whose retrieval failed it holds an     *)
(* entry for that query with an empty citation list and an error marker.   *)
(***************************************************************************)
C12_OneEntryPerQuery ==
    RetrievalDone =>
      LET Q == kb_results.query_results IN
        /\ Cardinality(DOMAIN Q) = kb_results.query_count
        /\ \A n \in DOMAIN issued :
             issued[n].results.error =>
               \E k \in DOMAIN Q :
                 /\ Q[k].query = issued[n].query_info.query_text
                 /\ Q[k].error
                 /\ Q[k].citations = <<>>

(***************************************************************************)
(* C13.  Every call of retrieve made by perform_targeted_retrievals asks   *)
(* for 3 results when the query's type is general and for 5 when it is any *)
(* other type (criterion_specific, threshold), and carries the same two    *)
(* filters: petition_type = EB1A and petition_status = rejected_appealed.  *)
(***************************************************************************)
C13_ResultsRequestedAndFilters ==
    \A n \in DOMAIN issued :
      /\ issued[n].query_info.query_type = "general" => issued[n].num_results = 3
      /\ issued[n].query_info.query_type # "general" => issued[n].num_results = 5
      /\ issued[n].filter_conditions =
           <<[key |-> "petition_type", value |-> "EB1A"],
             [key |-> "petition_status", value |-> "rejected_appealed"]>>

\* A general, a criterion_specific and a threshold query have been issued.
C13_Witness ==
    /\ RetrievalDone
    /\ \A t \in {"general", "criterion_specific", "threshold"} :
         \E n \in DOMAIN issued : issued[n].query_info.query_type = t


(***************************************************************************)
(* SpecAnalyzer: ResumeAnalyzer.analyze_resume, then generate_queries on   *)
(* the profile it returned (process_document, eb1a_processor.py).          *)
(***************************************************************************)
\* The sentences resumes are made of: one that matches nothing; long and
\* short ones that match one criterion, some of them exactly 10 or 11
\* characters long once stripped; long ones that match several criteria.
SentenceKinds ==
    {Sentence({}, 40, 0),
     Sentence({"awards"}, 40, 0),
     Sentence({"awards"}, 10, 1),
     Sentence({"awards"}, 11, 1),
     Sentence({"judging"}, 5, 0),
     Sentence({"membership", "judging"}, 40, 0),
     Sentence({"awards", "membership", "judging"}, 11, 0)}

\* The sequences of at most n sentences.
RECURSIVE ResumesUpTo(_)
ResumesUpTo(n) ==
    IF n = 0 THEN {<<>>}
    ELSE LET shorter == ResumesUpTo(n - 1)
         IN shorter \cup {Append(ss, k) : ss \in shorter, k \in SentenceKinds}
Resumes == ResumesUpTo(MaxSentences)

\* The variables of the other specifications, at rest.
RestOfAnalyzer ==
    /\ PipelineIdle /\ RetrievalIdle /\ RatingIdle /\ ExtractIdle /\ MultipartIdle

InitAnalyzer ==
    /\ sentences \in Resumes
    /\ profile = NoProfile
    /\ gen_queries = <<>>
    /\ RestOfAnalyzer

\* structured_profile = self.resume_analyzer.analyze_resume(resume_text)
AnalyzeResume ==
    /\ profile = NoProfile
    /\ profile' = analyze_resume(sentences)
    /\ UNCHANGED <<sentences, gen_queries, pipelineVars, retrievalVars,
                   ratingVars, extractVars, multipartVars>>

\* queries = self.resume_analyzer.generate_queries(structured_profile)
GenerateQueries ==
    /\ profile # NoProfile
    /\ gen_queries = <<>>
    /\ gen_queries' = generate_queries(profile)
    /\ UNCHANGED <<sentences, profile, pipelineVars, retrievalVars,
                   ratingVars, extractVars, multipartVars>>

NextAnalyzer == AnalyzeResume \/ GenerateQueries

SpecAnalyzer == InitAnalyzer /\ [][NextAnalyzer]_vars

\* The criteria of the registry, and those of a list.
CriteriaKeys == {EB1A_CRITERIA[i] : i \in DOMAIN EB1A_CRITERIA}
KeysOf(list) == {list[i] : i \in DOMAIN list}
\* The places of the resume whose sentence matches a pattern of criterion k
\* and is longer than 10 characters once trimmed.
EvidencePlaces(k) ==
    {j \in DOMAIN sentences : k \in sentences[j].matches /\ sentences[j].body > 10}

(***************************************************************************)
(* C14.  For every profile analyze_resume produces, generate_queries       *)
(* returns: one general query first; then one criterion_specific query per *)
(* relevant criterion, in the order of relevant_criteria and naming that   *)
(* criterion; then one threshold query, last, if and only if at least two  *)
(* criteria are relevant.  The query count is                              *)
(* 1 + |relevant| + (1 if |relevant| >= 2 else 0).                         *)
(***************************************************************************)
C14_QuerySequence ==
    gen_queries # <<>> =>
      LET rel == profile.relevant_criteria
          n == Len(rel)
          Q == gen_queries
      IN /\ Len(Q) = 1 + n + (IF n >= 2 THEN 1 ELSE 0)
         /\ Q[1].query_type = "general"
         /\ \A i \in 1..n :
              /\ Q[1 + i].query_type = "criterion_specific"
              /\ Q[1 + i].criterion = rel[i]
              /\ Q[1 + i].query_text = CriterionName(rel[i])
         /\ n >= 2 => Q[n + 2].query_type = "threshold"
         /\ \A i \in DOMAIN Q :
              /\ Q[i].query_type = "general" => i = 1
              /\ Q[i].query_type = "threshold" => i = Len(Q) /\ n >= 2

\* Queries were generated for a profile with three relevant criteria: the
\* general query, three criterion_specific queries and the threshold query.
C14_Witness ==
    /\ gen_queries # <<>>
    /\ profile.relevant_criteria = <<"awards", "membership", "judging">>
    /\ Len(gen_queries) = 5

(***************************************************************************)
(* C15.  In every profile returned by analyze_resume a criterion is in     *)
(* relevant_criteria if and only if at least 2 evidence sentences were     *)
(* found for it; each criterion appears at most once; relevant_criteria is *)
(* a subset of the keys of criteria_evidence; evidence_count equals the    *)
(* length of the evidence list.                                            *)
(***************************************************************************)
C15_RelevantIffTwoEvidence ==
    profile # NoProfile =>
      LET rel == profile.relevant_criteria
          CE == profile.criteria_evidence
      IN /\ \A k \in CriteriaKeys :
              k \in KeysOf(rel) <=> Cardinality(EvidencePlaces(k)) >= 2
         /\ \A i, j \in DOMAIN rel : i # j => rel[i] # rel[j]
         /\ KeysOf(rel) \subseteq DOMAIN CE
         /\ \A k \in DOMAIN CE :
              /\ CE[k].evidence_count = Len(CE[k].evidence)
              /\ Len(CE[k].evidence) = Cardinality(EvidencePlaces(k))

\* A profile with a criterion that has exactly one evidence sentence (not
\* relevant) and another that has exactly two (relevant).
C15_Witness ==
    /\ profile # NoProfile
    /\ \E k1, k2 \in DOMAIN profile.criteria_evidence :
         /\ profile.criteria_evidence[k1].evidence_count = 1
         /\ k1 \notin KeysOf(profile.relevant_criteria)
         /\ profile.criteria_evidence[k2].evidence_count = 2
         /\ k2 \in KeysOf(profile.relevant_criteria)

(***************************************************************************)
(* C16.  Every evidence sentence recorded for a criterion is longer than   *)
(* 10 characters after trimming and matches a pattern of that criterion; a *)
(* matching sentence of trimmed length <= 10 is never recorded and never   *)
(* counts toward relevance.                                                *)
(***************************************************************************)
C16_EvidenceLongerThanTen ==
    profile # NoProfile =>
      LET CE == profile.criteria_evidence IN
        /\ \A k \in DOMAIN CE : \A i \in DOMAIN CE[k].evidence :
             LET e == CE[k].evidence[i] IN
               /\ e.pad = 0 /\ e.body > 10
               /\ k \in e.matches
               /\ \E j \in DOMAIN sentences : e = [sentences[j] EXCEPT !.pad = 0]
        /\ \A k \in CriteriaKeys :
             /\ Cardinality(EvidencePlaces(k)) = 0 => k \notin DOMAIN CE
             /\ Cardinality(EvidencePlaces(k)) < 2
                  => k \notin KeysOf(profile.relevant_criteria)

\* The resume has two sentences that match awards and are 10 characters long
\* once trimmed (11 with their whitespace) and one long one; only the long one
\* was recorded and awards is not relevant.
C16_Witness ==
    /\ profile # NoProfile
    /\ Cardinality({j \in DOMAIN sentences :
                      sentences[j] = Sentence({"awards"}, 10, 1)}) = 2
    /\ "awards" \in DOMAIN profile.criteria_evidence
    /\ profile.criteria_evidence["awards"].evidence_count = 1
    /\ "awards" \notin KeysOf(profile.relevant_criteria)


(***************************************************************************)
(* SpecRating: the rating process_document computes from the verdict of    *)
(* the evaluation (the same code in both deployments).                     *)
(***************************************************************************)
\* The verdicts: met_criteria_count and threshold_met are each present or
\* missing.
Verdicts ==
    LET base == [visa_category |-> "EB1A"]
        WithCount(v) == {v} \cup {[k \in DOMAIN v \cup {"met_criteria_count"} |->
                                     IF k = "met_criteria_count" THEN c ELSE v[k]] :
                                  c \in 0..MaxMet}
        WithThreshold(v) == {v} \cup {[k \in DOMAIN v \cup {"threshold_met"} |->
                                         IF k = "threshold_met" THEN t ELSE v[k]] :
                                      t \in BOOLEAN}
    IN UNION {WithThreshold(v) : v \in WithCount(base)}

InitRating ==
    /\ variant \in Variants
    /\ event = [b64 |-> "plain", content_type |-> "multipart/form-data; boundary=X",
                file |-> "pdf_text", visa_category |-> "absent"]
    /\ pc = "rate"
    /\ resume_text = "text"
    /\ queries_left = 0
    /\ tierLog = <<>>
    /\ retrievalCalls = 0
    /\ generationCalls = 0
    /\ response = NoResponse
    /\ RetrievalIdle /\ AnalyzerIdle /\ ExtractIdle /\ MultipartIdle
    /\ criteria_analysis \in Verdicts
    /\ probability = None

\* met_count = criteria_analysis.get("met_criteria_count", 0);
\* threshold_met = criteria_analysis.get("threshold_met", False); the if chain.
RateVerdict ==
    /\ pc = "rate"
    /\ probability = None
    /\ LET met_count == Get(criteria_analysis, "met_criteria_count", 0)
           threshold_met == Get(criteria_analysis, "threshold_met", FALSE)
       IN probability' = Rate(met_count, threshold_met)
    /\ UNCHANGED <<criteria_analysis, pipelineVars, retrievalVars, analyzerVars,
                   extractVars, multipartVars>>

NextRating == RateVerdict

SpecRating == InitRating /\ [][NextRating]_vars

\* The count and the flag the claims speak of: a missing count is 0, a
\* missing flag does not hold.
MetCountOf(v) == IF "met_criteria_count" \in DOMAIN v THEN v.met_criteria_count ELSE 0
ThresholdMetOf(v) == IF "threshold_met" \in DOMAIN v THEN v.threshold_met ELSE FALSE

(***************************************************************************)
(* C17.  The rating is High when threshold_met holds and the count is      *)
(* >= 5, Low when threshold_met does not hold and the count is >= 2, and   *)
(* Very Low when threshold_met does not hold and the count is < 2 (also    *)
(* when both fields are missing from the verdict).  Every verdict gets     *)
(* exactly one of the four ratings.                                        *)
(***************************************************************************)
C17_HighLowVeryLow ==
    probability # None =>
      LET c == MetCountOf(criteria_analysis)
          t == ThresholdMetOf(criteria_analysis)
      IN /\ t /\ c >= 5 => probability = "High"
         /\ ~t /\ c >= 2 => probability = "Low"
         /\ ~t /\ c < 2 => probability = "Very Low"
         /\ probability \in {"High", "Moderate", "Low", "Very Low"}

\* A verdict with neither field was rated Very Low.
C17_Witness ==
    /\ criteria_analysis = [visa_category |-> "EB1A"]
    /\ probability = "Very Low"

(***************************************************************************)
(* C18.  The rating is Moderate only when threshold_met holds and the      *)
(* count is 3 or 4; every other verdict not rated High or Low is rated     *)
(* Very Low.  A verdict whose met_criteria_count is 0 is rated Very Low    *)
(* whatever threshold_met is.                                              *)
(***************************************************************************)
C18_ModerateOnlyThreeOrFour ==
    probability # None =>
      LET c == MetCountOf(criteria_analysis)
          t == ThresholdMetOf(criteria_analysis)
      IN /\ probability = "Moderate" => t /\ c \in {3, 4}
         /\ c = 0 => probability = "Very Low"


(***************************************************************************)
(* SpecExtract: DocumentProcessor._extract_json.                           *)
(*                                                                         *)
(* A text is a sequence of tokens: the fence markers ```json (fence_json)  *)
(* and ``` (fence), the braces, a member written with double quotes (k) or *)
(* with single quotes (q), a member written with double quotes whose       *)
(* string value holds an apostrophe (a), a JSON value without braces such  *)
(* as a number or an array of numbers (1), prose without braces or quotes  *)
(* (x) and whitespace.  Replacing the single quotes of a text turns q into *)
(* k and a into a member whose string is cut short (b).                    *)
(***************************************************************************)
FenceJson == "fence_json"
Fence == "fence"
Ws == " "
Tokens == {FenceJson, Fence, "{", "}", "k", "q", "a", "1", "x", Ws}

\* `tok in text`
Contains(s, tok) == \E i \in DOMAIN s : s[i] = tok
\* text.find(tok) and text.rfind(tok): 0-based, -1 when absent
Find(s, tok) ==
    IF Contains(s, tok)
    THEN (CHOOSE i \in DOMAIN s : s[i] = tok /\ \A j \in 1..(i - 1) : s[j] # tok) - 1
    ELSE -1
RFind(s, tok) ==
    IF Contains(s, tok)
    THEN (CHOOSE i \in DOMAIN s :
            s[i] = tok /\ \A j \in (i + 1)..Len(s) : s[j] # tok) - 1
    ELSE -1
\* text[a:b] for 0 <= a
Slice(s, a, b) == SubSeq(s, a + 1, IF b > Len(s) THEN Len(s) ELSE b)
\* text.strip()
StripText(s) ==
    LET solid == {i \in DOMAIN s : s[i] # Ws} IN
      IF solid = {} THEN <<>>
      ELSE SubSeq(s, CHOOSE i \in solid : \A j \in solid : i <= j,
                     CHOOSE i \in solid : \A j \in solid : i >= j)
\* json_text.replace: every single quote becomes a double quote
ReplaceQuotes(s) ==
    [i \in DOMAIN s |-> IF s[i] = "q" THEN "k" ELSE IF s[i] = "a" THEN "b" ELSE s[i]]

\* json.loads(text) does not raise JSONDecodeError: apart from whitespace the
\* text is a value without braces, an empty object or an object with one
\* double-quoted member.
JsonLoads(s) ==
    SelectSeq(s, LAMBDA t : t # Ws)
      \in {<<"1">>, <<"{", "}">>, <<"{", "k", "}">>, <<"{", "a", "}">>}

\* text.split("```json")[1].split("```")[0]: what follows the first ```json
\* up to the next ``` (which also begins every ```json).
FencedJsonBlock(s) ==
    LET from == Find(s, FenceJson) + 2
        ends == {i \in from..Len(s) : s[i] \in {Fence, FenceJson}}
        to == IF ends = {} THEN Len(s)
              ELSE (CHOOSE i \in ends : \A j \in ends : i <= j) - 1
    IN SubSeq(s, from, to)

\* text.split("```") for a text without ```json.
RECURSIVE SplitOnFence(_)
SplitOnFence(s) ==
    IF ~Contains(s, Fence) THEN <<s>>
    ELSE <<SubSeq(s, 1, Find(s, Fence))>>
         \o SplitOnFence(SubSeq(s, Find(s, Fence) + 2, Len(s)))
\* [block.strip() for block in text.split("```") if "{" in block and "}" in block]
JsonBlocks(s) ==
    LET blocks == SelectSeq(SplitOnFence(s),
                            LAMBDA b : Contains(b, "{") /\ Contains(b, "}"))
    IN [i \in DOMAIN blocks |-> StripText(blocks[i])]

\* What a call does: it returns a value or raises an exception of some class.
Returns(v) == [raised |-> FALSE, kind |-> None, value |-> v]
RaisesError(k) == [raised |-> TRUE, kind |-> k, value |-> <<>>]
\* `json.loads(json_text); return json_text`
Validated(json_text) ==
    IF JsonLoads(json_text) THEN Returns(json_text)
    ELSE RaisesError("JSONDecodeError")

\* The try block without its ```json branch.
ExtractTryNoJsonFence(s) ==
    IF Contains(s, Fence) /\ JsonBlocks(s) # <<>>
    THEN Validated(JsonBlocks(s)[1])
    ELSE LET json_start == Find(s, "{")
             json_end == RFind(s, "}") + 1
         IN IF json_start >= 0 /\ json_end > 0
            THEN Validated(Slice(s, json_start, json_end))
            ELSE RaisesError("ValueError")

\* The try block of _extract_json.
ExtractTry(s) ==
    IF Contains(s, FenceJson)
    THEN Validated(StripText(FencedJsonBlock(s)))
    ELSE IF Contains(s, Fence) /\ JsonBlocks(s) # <<>>
    THEN Validated(JsonBlocks(s)[1])
    ELSE LET json_start == Find(s, "{")
             json_end == RFind(s, "}") + 1
         IN IF json_start >= 0 /\ json_end > 0
            THEN Validated(Slice(s, json_start, json_end))
            ELSE RaisesError("ValueError")

\* The except clause without the second json.loads.
HandleDecodeErrorUnvalidated(s) ==
    IF Contains(s, "{") /\ Contains(s, "}")
    THEN Returns(ReplaceQuotes(Slice(s, Find(s, "{"), RFind(s, "}") + 1)))
    ELSE RaisesError("ValueError")

\* `except json.JSONDecodeError`: the text between the first { and the last }
\* with single quotes replaced is returned if it parses; otherwise ValueError.
HandleDecodeError(s) ==
    IF Contains(s, "{") /\ Contains(s, "}")
    THEN LET json_text == ReplaceQuotes(Slice(s, Find(s, "{"), RFind(s, "}") + 1))
         IN IF JsonLoads(json_text) THEN Returns(json_text)
            ELSE RaisesError("ValueError")
    ELSE RaisesError("ValueError")

\* DocumentProcessor._extract_json
_extract_json(s) ==
    LET r == ExtractTry(s) IN
      IF r.raised /\ r.kind = "JSONDecodeError" THEN HandleDecodeError(s) ELSE r

\* The texts of at most n tokens.
RECURSIVE TextsUpTo(_)
TextsUpTo(n) ==
    IF n = 0 THEN {<<>>}
    ELSE LET shorter == TextsUpTo(n - 1)
         IN shorter \cup {Append(s, t) : s \in shorter, t \in Tokens}

\* What stands between two fences, or before the first, or after the last.
BlockKinds == {<<>>, <<"x">>, <<"{", "}">>, <<"{", "k", "}">>, <<"{", "x", "}">>}
\* The texts made of n + 1 blocks separated by n fences, of which the first
\* is ``` or ```json and the others are ```.
RECURSIVE FencedTexts(_)
FencedTexts(n) ==
    IF n = 0 THEN BlockKinds
    ELSE IF n = 1
    THEN {b1 \o <<f>> \o b2 : b1 \in BlockKinds, b2 \in BlockKinds,
                                f \in {Fence, FenceJson}}
    ELSE {s \o <<Fence>> \o b : s \in FencedTexts(n - 1), b \in BlockKinds}
ModelTexts == TextsUpTo(MaxTokens) \cup UNION {FencedTexts(n) : n \in 0..MaxFences}

InitExtract ==
    /\ model_text \in ModelTexts
    /\ extracted = <<>>
    /\ PipelineIdle /\ RetrievalIdle /\ AnalyzerIdle /\ RatingIdle /\ MultipartIdle

\* json_text = self._extract_json(response_text)
ExtractJson ==
    /\ extracted = <<>>
    /\ extracted' = <<_extract_json(model_text)>>
    /\ UNCHANGED <<model_text, pipelineVars, retrievalVars, analyzerVars,
                   ratingVars, multipartVars>>

\* _extract_json applied to the string a first call returned.
ExtractJsonAgain ==
    /\ Len(extracted) = 1
    /\ ~extracted[1].raised
    /\ extracted' = Append(extracted, _extract_json(extracted[1].value))
    /\ UNCHANGED <<model_text, pipelineVars, retrievalVars, analyzerVars,
                   ratingVars, multipartVars>>

NextExtract == ExtractJson \/ ExtractJsonAgain

SpecExtract == InitExtract /\ [][NextExtract]_vars

(***************************************************************************)
(* C19.  For every input text _extract_json either returns a string that   *)
(* parses as a JSON document or fails with ValueError: it never returns a  *)
(* string that does not parse and no exception of another class leaves it. *)
(* A text with no { or no }, and with no fence, makes it fail.             *)
(***************************************************************************)
C19_ValidJsonOrValueError ==
    \A n \in DOMAIN extracted :
      LET input == IF n = 1 THEN model_text ELSE extracted[n - 1].value
          r == extracted[n]
      IN /\ ~r.raised => JsonLoads(r.value)
         /\ r.raised => r.kind = "ValueError"
         /\ (\/ ~Contains(input, "{") \/ ~Contains(input, "}"))
              /\ ~Contains(input, Fence) /\ ~Contains(input, FenceJson)
              => r.raised

\* The fenced block did not parse, the text between the outermost braces did
\* once its single quotes were replaced, and that text was returned.
C19_Witness ==
    /\ model_text = <<FenceJson, "{", "q", "}">>
    /\ Len(extracted) >= 1
    /\ ~extracted[1].raised
    /\ extracted[1].value = <<"{", "k", "}">>

(***************************************************************************)
(* C20.  _extract_json is idempotent on clean JSON: for every text that is *)
(* a valid JSON document, with or without surrounding whitespace, it       *)
(* succeeds and returns the text without the surrounding whitespace; and   *)
(* whenever it succeeds on a text, applying it to the returned string      *)
(* succeeds and returns the same string.                                   *)
(***************************************************************************)
C20_IdempotentOnCleanJson ==
    /\ Len(extracted) >= 1 /\ JsonLoads(model_text) =>
         /\ ~extracted[1].raised
         /\ extracted[1].value = StripText(model_text)
    /\ Len(extracted) = 2 =>
         /\ ~extracted[2].raised
         /\ extracted[2].value = extracted[1].value


\* Readings of a text used by the properties below.  A fence is either
\* marker; the places of a text's fences, in order.
IsFence(t) == t \in {Fence, FenceJson}
FencePlaces(s) == {i \in DOMAIN s : IsFence(s[i])}
\* The smallest element of a non-empty set of numbers.
Least(S) == CHOOSE i \in S : \A j \in S : i <= j
\* What stands between place i and the next fence after it (or the end).
ContentAfter(s, i) ==
    LET closers == {j \in FencePlaces(s) : j > i}
    IN SubSeq(s, i + 1, IF closers = {} THEN Len(s) ELSE Least(closers) - 1)
\* The text without its leading and trailing whitespace.
Trimmed(s) ==
    LET solid == {i \in DOMAIN s : s[i] # Ws}
    IN IF solid = {} THEN <<>>
       ELSE [i \in 1..(1 + (CHOOSE m \in solid : \A j \in solid : m >= j) - Least(solid))
               |-> s[Least(solid) + i - 1]]

(***************************************************************************)
(* C21.  When the text contains a json-tagged fence whose content (between *)
(* that opening fence and the next fence) parses as JSON, _extract_json    *)
(* returns exactly that content, trimmed, whatever other fenced blocks or  *)
(* brace-delimited text stand before or after the fence.  (Of several      *)
(* json-tagged fences the first is meant.)                                 *)
(***************************************************************************)
C21_JsonFencePreferred ==
    Len(extracted) >= 1 /\ Contains(model_text, FenceJson) =>
      LET open == Least({i \in DOMAIN model_text : model_text[i] = FenceJson})
          content == ContentAfter(model_text, open)
      IN JsonLoads(content) =>
           /\ ~extracted[1].raised
           /\ extracted[1].value = Trimmed(content)

\* An object stands before the json-tagged fence and braces stand after its
\* closing fence; the content of the fence was returned.
C21_Witness ==
    /\ model_text = <<"{", "k", "}", FenceJson, "{", "}", Fence, "{", "x", "}">>
    /\ Len(extracted) >= 1
    /\ ~extracted[1].raised
    /\ extracted[1].value = <<"{", "}">>

\* The fenced blocks of a text without json-tagged fence: the fences pair up
\* in order (opening, closing, opening, closing, ...), and a block is what
\* stands between an opening fence and its closing fence.  The places of the
\* opening fences that have a closing fence.
OpeningPlaces(s) ==
    {i \in FencePlaces(s) :
       /\ Cardinality({j \in FencePlaces(s) : j < i}) % 2 = 0
       /\ \E j \in FencePlaces(s) : j > i}
\* Those whose block contains both braces.
BracedOpenings(s) ==
    {i \in OpeningPlaces(s) :
       Contains(ContentAfter(s, i), "{") /\ Contains(ContentAfter(s, i), "}")}

(***************************************************************************)
(* C22.  When the text has no json-tagged fence but has fenced blocks, the *)
(* candidate of the second strategy is the content of the first fenced     *)
(* block (between an opening fence and its closing fence) that contains    *)
(* both { and }; text outside the fences is not a candidate.  So when that *)
(* block's content parses, it is what _extract_json returns.               *)
(***************************************************************************)
C22_FirstBracedFencedBlock ==
    /\ Len(extracted) >= 1
    /\ ~Contains(model_text, FenceJson)
    /\ BracedOpenings(model_text) # {}
    => LET candidate == ContentAfter(model_text, Least(BracedOpenings(model_text)))
       IN JsonLoads(candidate) =>
            /\ ~extracted[1].raised
            /\ extracted[1].value = Trimmed(candidate)

\* The candidate of the fenced strategies: the content of the json-tagged
\* fence, or without one the first fenced block with both braces; <<"none">>
\* when the text has neither.
FencedCandidate(s) ==
    IF Contains(s, FenceJson)
    THEN ContentAfter(s, Least({i \in DOMAIN s : s[i] = FenceJson}))
    ELSE IF BracedOpenings(s) # {}
    THEN ContentAfter(s, Least(BracedOpenings(s)))
    ELSE <<"none">>
\* The substring from the first { to the last } of the whole text.
OutermostBraces(s) ==
    LET opens == {i \in DOMAIN s : s[i] = "{"}
        closes == {i \in DOMAIN s : s[i] = "}"}
    IN IF opens = {} \/ closes = {} THEN <<>>
       ELSE SubSeq(s, Least(opens), CHOOSE m \in closes : \A j \in closes : m >= j)

(***************************************************************************)
(* C23.  The strategies are tried in order, each later one when the        *)
(* earlier one's candidate fails validation: when the fenced candidate     *)
(* (strategy 1 or 2) fails to parse, the unmodified substring from the     *)
(* first { to the last } of the whole text is tried next and returned if   *)
(* it parses; the replacement of single quotes is applied only after that  *)
(* unmodified substring has failed to parse.                               *)
(***************************************************************************)
C23_UnmodifiedSubstringBeforeRepair ==
    /\ Len(extracted) >= 1
    /\ FencedCandidate(model_text) # <<"none">>
    /\ ~JsonLoads(FencedCandidate(model_text))
    /\ JsonLoads(OutermostBraces(model_text))
    => /\ ~extracted[1].raised
       /\ extracted[1].value = OutermostBraces(model_text)


(***************************************************************************)
(* C25.  For every event whose content-type header is missing or does not  *)
(* start with multipart/form-data, and for every event with no boundary    *)
(* parameter or an undecodable base64 body, parse_multipart fails with     *)
(* ValueError and no exception of another class leaves it; the handler     *)
(* answers 400, never 500.                                                 *)
(***************************************************************************)
C25_BadEnvelopeIs400 ==
    /\ pc = "done"
    /\ \/ event.b64 = "bad_base64"
       \/ event.content_type # "multipart/form-data; boundary=X"
    => /\ response.statusCode = 400
       /\ response.error.kind = "ValueError"
       /\ response.error.by = "parse_multipart"

\* The boundary parameter has no value: the lookup of the value raises
\* IndexError inside parse_multipart, and the handler answered 400.
C25_Witness ==
    /\ pc = "done"
    /\ event.b64 = "base64"
    /\ event.content_type = "multipart/form-data; boundary"
    /\ response.statusCode = 400


(***************************************************************************)
(* C29.  In the eb1a_processor.py deployment the citation_count field of a *)
(* successful process_document result equals the number of consolidated    *)
(* citations perform_targeted_retrievals returned for that request         *)
(* (between 0 and 10).                                                     *)
(***************************************************************************)
C29_CitationCountIsConsolidated ==
    /\ variant = "eb1a_processor"
    /\ pc = "done"
    /\ response.statusCode = 200
    => /\ response.result.citation_count = Len(kb_results.consolidated_citations)
       /\ response.result.citation_count \in 0..10

(***************************************************************************)
(* SpecMultipart: parse_multipart on the bytes of a multipart/form-data    *)
(* body, and the handler's check of the file field.                        *)
(*                                                                         *)
(* A body is a sequence of bytes.  CR, LF, the dash, the space, the        *)
(* quotes, the colon, the semicolon, the equals sign and the bytes of a    *)
(* part's content are single bytes; the words of a header (form-data,      *)
(* name=, filename=, Content-Disposition, ...) stand for their ASCII bytes *)
(* and occur only in header blocks and in the content type.  c3 a9 is the  *)
(* UTF-8 encoding of one character (e_acute); ff occurs in no UTF-8 text.  *)
(***************************************************************************)
MaxParts == 2

CR == "CR"
LF == "LF"
Dash == "-"
DQ == "dq"
Apos == "'"
Colon == ":"
Semi == ";"
Eq == "="
NotUtf8 == "ff"
EAcute == "e_acute"
Whitespace == {Ws, CR, LF}
Quotes == {DQ, Apos}

\* bytes.strip() / str.strip() and strip(chars): the bytes of the set are
\* removed from both ends
StripBytes(s, set) ==
    LET solid == {i \in DOMAIN s : s[i] \notin set} IN
      IF solid = {} THEN <<>>
      ELSE SubSeq(s, CHOOSE i \in solid : \A j \in solid : i <= j,
                     CHOOSE i \in solid : \A j \in solid : i >= j)

\* s.find(d) for a non-empty d, 1-based, 0 when d does not occur
FindSeq(s, d) ==
    LET at == {i \in 1..(Len(s) - Len(d) + 1) : SubSeq(s, i, i + Len(d) - 1) = d}
    IN IF at = {} THEN 0 ELSE CHOOSE i \in at : \A j \in at : i <= j

\* s.split(d)
RECURSIVE SplitSeq(_, _)
SplitSeq(s, d) ==
    LET i == FindSeq(s, d) IN
      IF i = 0 THEN <<s>>
      ELSE <<SubSeq(s, 1, i - 1)>> \o SplitSeq(SubSeq(s, i + Len(d), Len(s)), d)

\* s.split(d, 1)
SplitOnce(s, d) ==
    LET i == FindSeq(s, d) IN
      IF i = 0 THEN <<s>>
      ELSE <<SubSeq(s, 1, i - 1), SubSeq(s, i + Len(d), Len(s))>>

\* s[:-2]
DropLastTwo(s) == IF Len(s) <= 2 THEN <<>> ELSE SubSeq(s, 1, Len(s) - 2)

\* bytes.decode("utf-8"): raises on a byte sequence that is not UTF-8, and
\* otherwise gives one character for c3 a9 and one for every other byte
Utf8Decode(b) ==
    LET valid == \A i \in DOMAIN b :
                   /\ b[i] # NotUtf8
                   /\ b[i] = "c3" => i < Len(b) /\ b[i + 1] = "a9"
                   /\ b[i] = "a9" => i > 1 /\ b[i - 1] = "c3"
        leading == SelectSeq(b, LAMBDA t : t # "a9")
    IN IF valid
       THEN [raised |-> FALSE,
             value |-> [i \in DOMAIN leading |->
                          IF leading[i] = "c3" THEN EAcute ELSE leading[i]]]
       ELSE [raised |-> TRUE, value |-> <<>>]

\* the concatenation of the sequences of a sequence
RECURSIVE Join(_)
Join(seqs) ==
    IF Len(seqs) = 0 THEN <<>>
    ELSE IF Len(seqs) = 1 THEN seqs[1]
    ELSE LET half == Len(seqs) \div 2
         IN Join(SubSeq(seqs, 1, half)) \o Join(SubSeq(seqs, half + 1, Len(seqs)))

\* str.encode("utf-8")
Utf8Encode(text) ==
    Join([i \in DOMAIN text |->
            IF text[i] = EAcute THEN <<"c3", "a9">> ELSE <<text[i]>>])

\* base64: every three bytes become one group of four characters, written
\* here as the group of the bytes it encodes; b64decode joins the groups.
b64encode(b) ==
    [k \in 1..((Len(b) + 2) \div 3) |->
       SubSeq(b, 3 * k - 2, IF 3 * k > Len(b) THEN Len(b) ELSE 3 * k)]
b64decode(groups) == Join(groups)

\* str.lower() on the header names that occur
Lower(tok) ==
    IF tok = "Content-Disposition" THEN "content-disposition"
    ELSE IF tok = "Content-Type" THEN "content-type"
    ELSE tok

(* The client: a part has a name parameter and a filename parameter (None: *)
(* the parameter is absent; the empty string: it is present and empty), a  *)
(* content, and is well formed unless its blank line is missing (sep) or   *)
(* its header block holds a byte that is not UTF-8 (hdr_ok).               *)
Part(name, filename, content) ==
    [name |-> name, filename |-> filename, content |-> content,
     sep |-> TRUE, hdr_ok |-> TRUE]
Contents == {<<"a">>, <<NotUtf8, "a">>, <<"a", CR, LF, CR, LF, "b">>}
FileParts == {Part("file", "r.pdf", c) : c \in Contents}
TextParts ==
    {Part("visa_category", None, c) : c \in {<<"c3", "a9">>, <<NotUtf8, "a">>}}
      \cup {Part("file", None, <<"b">>)}
EmptyFilenameParts == {Part("file", "", c) : c \in {<<"a">>, <<NotUtf8, "a">>}}
NamelessParts == {Part(None, "r.pdf", <<"a">>), Part("", None, <<"a">>)}
BrokenParts ==
    {[Part("file", "r.pdf", <<"a">>) EXCEPT !.sep = FALSE],
     [Part("file", "r.pdf", <<"a">>) EXCEPT !.hdr_ok = FALSE]}
PartKinds ==
    FileParts \cup TextParts \cup EmptyFilenameParts \cup NamelessParts
      \cup BrokenParts
RECURSIVE PartListsUpTo(_)
PartListsUpTo(n) ==
    IF n = 0 THEN {<<>>}
    ELSE LET shorter == PartListsUpTo(n - 1)
         IN shorter \cup {Append(ps, p) : ps \in shorter, p \in PartKinds}
PartLists == PartListsUpTo(MaxParts)

\* The boundary and the way the content type writes it (quoted or not).
BoundaryForms ==
    {[boundary |-> <<"X">>, param |-> <<"X">>],
     [boundary |-> <<"X">>, param |-> <<DQ, "X", DQ>>],
     [boundary |-> <<"X", Eq, "Y">>, param |-> <<DQ, "X", Eq, "Y", DQ>>],
     [boundary |-> <<Eq, "X">>, param |-> <<DQ, Eq, "X", DQ>>]}

Parameter(key, value) ==
    IF value = None THEN <<>>
    ELSE <<Semi, Ws, key, DQ>> \o (IF value = "" THEN <<>> ELSE <<value>>) \o <<DQ>>
HeaderBlock(p) ==
    <<"Content-Disposition", Colon, Ws, "form-data">>
      \o Parameter("name=", p.name) \o Parameter("filename=", p.filename)
      \o (IF p.filename \in {None, ""} THEN <<>>
          ELSE <<CR, LF, "Content-Type", Colon, Ws, "application/pdf">>)
      \o (IF p.hdr_ok THEN <<>> ELSE <<CR, LF, "X-Note", Colon, Ws, NotUtf8>>)
EncodePart(boundary, p) ==
    <<Dash, Dash>> \o boundary \o <<CR, LF>> \o HeaderBlock(p)
      \o (IF p.sep THEN <<CR, LF, CR, LF>> ELSE <<CR, LF>>)
      \o p.content \o <<CR, LF>>
RECURSIVE EncodeParts(_, _)
EncodeParts(boundary, ps) ==
    IF ps = <<>> THEN <<>>
    ELSE EncodePart(boundary, Head(ps)) \o EncodeParts(boundary, Tail(ps))
EncodeBody(boundary, ps) ==
    EncodeParts(boundary, ps) \o <<Dash, Dash>> \o boundary \o <<Dash, Dash, CR, LF>>

\* The event API Gateway hands over: the body base64-encoded, or as a string
\* when its bytes are UTF-8.
EventOf(form, b64, ps) ==
    LET bytes == EncodeBody(form.boundary, ps) IN
      [isBase64Encoded |-> b64,
       content_type |-> <<"multipart/form-data", Semi, Ws, "boundary", Eq>> \o form.param,
       body |-> IF b64 THEN b64encode(bytes) ELSE Utf8Decode(bytes).value]

(* parse_multipart. *)
Raised(kind) == [raised |-> TRUE, kind |-> kind, form_data |-> EmptyForm]
Returned(fd) == [raised |-> FALSE, kind |-> None, form_data |-> fd]

\* the boundary loop: the first piece of the content type that holds the
\* word boundary, part.split("=")[1].strip().strip("\"'")
BoundaryOf(content_type) ==
    LET pieces == SplitSeq(content_type, <<Semi>>)
        holding == {i \in DOMAIN pieces : Contains(pieces[i], "boundary")}
    IN IF holding = {} THEN [raised |-> FALSE, value |-> <<>>]
       ELSE LET piece == pieces[CHOOSE i \in holding : \A j \in holding : i <= j]
                halves == SplitSeq(piece, <<Eq>>)
            IN IF Len(halves) < 2 THEN [raised |-> TRUE, value |-> <<>>]
               ELSE [raised |-> FALSE,
                     value |-> StripBytes(StripBytes(halves[2], Whitespace), Quotes)]

\* headers = {}; for line in headers_raw.split("\r\n"): if ":" in line: ...
HeadersOf(headers_raw) ==
    LET lines == SplitSeq(headers_raw, <<CR, LF>>)
        keyed == {i \in DOMAIN lines : Contains(lines[i], Colon)}
        KeyOf(i) ==
            LET k == StripBytes(SplitOnce(lines[i], <<Colon>>)[1], {Ws})
            IN [j \in DOMAIN k |-> Lower(k[j])]
        ValueOf(i) == StripBytes(SplitOnce(lines[i], <<Colon>>)[2], {Ws})
    IN [k \in {KeyOf(i) : i \in keyed} |->
          ValueOf(CHOOSE i \in keyed :
                    KeyOf(i) = k /\ \A j \in keyed : KeyOf(j) = k => j <= i)]

\* field_name = None; the items loop sets it from the last item that starts
\* with the key, item[len(key):].strip("\"'")
Unset == [set |-> FALSE, value |-> <<>>]
ItemValue(items, key) ==
    LET stripped == [i \in DOMAIN items |-> StripBytes(items[i], {Ws})]
        with == {i \in DOMAIN items : stripped[i] # <<>> /\ Head(stripped[i]) = key}
    IN IF with = {} THEN Unset
       ELSE [set |-> TRUE,
             value |-> StripBytes(Tail(stripped[CHOOSE i \in with :
                                                  \A j \in with : j <= i]),
                                  Quotes)]

\* `if filename` / `if field_name`: None and the empty string are false
Truthy(x) == x.set /\ x.value # <<>>

\* form_data[field_name] = value
StoreFieldKeepFirst(fd, field_name, value) ==
    IF field_name \in FormKeys(fd) THEN fd
    ELSE Append(fd, [key |-> field_name, value |-> value])
StoreField(fd, field_name, value) ==
    IF field_name \in FormKeys(fd)
    THEN [i \in DOMAIN fd |->
            IF fd[i].key = field_name THEN [key |-> field_name, value |-> value]
            ELSE fd[i]]
    ELSE Append(fd, [key |-> field_name, value |-> value])

\* The body of the try block of one part: raised when an exception leaves it.
PartTry(fd, part) ==
    LET halves == SplitOnce(part, <<CR, LF, CR, LF>>) IN
      IF Len(halves) < 2 THEN Raised("ValueError")
      ELSE
        LET headers_raw == Utf8Decode(halves[1])
            content == halves[2]
        IN IF headers_raw.raised THEN Raised("UnicodeDecodeError")
           ELSE
             LET headers == HeadersOf(headers_raw.value)
                 content_disposition == Get(headers, <<"content-disposition">>, <<>>)
                 items == SplitSeq(content_disposition, <<Semi>>)
                 field_name == ItemValue(items, "name=")
                 filename == ItemValue(items, "filename=")
                 decoded == Utf8Decode(DropLastTwo(content))
             IN IF ~Truthy(field_name) THEN Returned(fd)
                ELSE IF Truthy(filename)
                THEN Returned(StoreField(fd, field_name.value,
                                [type |-> "bytes", data |-> DropLastTwo(content)]))
                ELSE IF decoded.raised THEN Raised("UnicodeDecodeError")
                ELSE Returned(StoreField(fd, field_name.value,
                                [type |-> "str", data |-> decoded.value]))

\* try: ... except Exception: continue
ParsePartUnabsorbed(fd, part) == PartTry(fd, part)
ParsePart(fd, part) ==
    LET tried == PartTry(fd, part) IN
      IF tried.raised THEN Returned(fd) ELSE tried

\* for part in parts: ...; after[i] is the outcome once i pieces are done
ParseParts(fd, pieces) ==
    LET after[i \in 0..Len(pieces)] ==
          IF i = 0 THEN Returned(fd)
          ELSE IF after[i - 1].raised THEN after[i - 1]
          ELSE IF StripBytes(pieces[i], Whitespace) \in {<<>>, <<Dash, Dash>>}
          THEN after[i - 1]
          ELSE ParsePart(after[i - 1].form_data, pieces[i])
    IN after[Len(pieces)]

\* The try block of parse_multipart.
ParseBodyTry(ev) ==
    LET body == IF ev.isBase64Encoded THEN b64decode(ev.body)
                ELSE Utf8Encode(ev.body)
        boundary == BoundaryOf(ev.content_type)
    IN IF ev.content_type = <<>> \/ Head(ev.content_type) # "multipart/form-data"
       THEN Raised("ValueError")
       ELSE IF boundary.raised THEN Raised("IndexError")
       ELSE IF boundary.value = <<>> THEN Raised("ValueError")
       ELSE ParseParts(EmptyForm, SplitSeq(body, <<Dash, Dash>> \o boundary.value))

\* except Exception as e: raise ValueError(...)
ParseBody(ev) ==
    LET tried == ParseBodyTry(ev) IN
      IF tried.raised THEN Raised("ValueError") ELSE tried

InitMultipart ==
    /\ \E form \in BoundaryForms, b64 \in BOOLEAN, ps \in PartLists :
         /\ b64 \/ ~Utf8Decode(EncodeBody(form.boundary, ps)).raised
         /\ mp_sent = [form |-> form, b64 |-> b64, parts |-> ps]
         /\ mp_event = EventOf(form, b64, ps)
    /\ mp_form = NotParsed
    /\ mp_response = NoFileCheck
    /\ PipelineIdle /\ RetrievalIdle /\ AnalyzerIdle /\ RatingIdle /\ ExtractIdle

\* form_data = parse_multipart(event)
DecodeForm ==
    /\ mp_form.kind = "pending"
    /\ mp_form' = ParseBody(mp_event)
    /\ UNCHANGED <<mp_sent, mp_event, mp_response, pipelineVars, retrievalVars,
                   analyzerVars, ratingVars, extractVars>>

\* file_content = form_data.get("file"); if file_content: ... else: raise
\* ValueError("No file provided"); a ValueError is answered with 400.
CheckFile ==
    /\ mp_form.kind # "pending"
    /\ mp_response.statusCode = -1
    /\ LET file_content == FormGet(mp_form.form_data, <<"file">>, NoField) IN
         mp_response' =
           IF mp_form.raised
           THEN [statusCode |-> 400, error |-> "Failed to parse multipart/form-data",
                 file_content |-> NoField]
           ELSE IF file_content.data # <<>>
           THEN [statusCode |-> 0, error |-> None, file_content |-> file_content]
           ELSE [statusCode |-> 400, error |-> "No file provided",
                 file_content |-> NoField]
    /\ UNCHANGED <<mp_sent, mp_event, mp_form, pipelineVars, retrievalVars,
                   analyzerVars, ratingVars, extractVars>>

NextMultipart == DecodeForm \/ CheckFile

SpecMultipart == InitMultipart /\ [][NextMultipart]_vars

\* Readings of a SpecMultipart state.
Parsed == mp_form.kind # "pending"
Checked == mp_response.statusCode # -1
SentParts == mp_sent.parts
Delimiter == <<Dash, Dash>> \o mp_sent.form.boundary
WellFormed(p) == p.sep /\ p.hdr_ok /\ FindSeq(p.content, Delimiter) = 0
Named(p) == p.name \notin {None, ""}
\* what parse_multipart makes of the same client sending the parts ps
ParseOf(ps) == ParseBody(EventOf(mp_sent.form, mp_sent.b64, ps))
\* the content type is one parse_multipart finds a boundary in
EnvelopeAccepted ==
    LET boundary == BoundaryOf(mp_event.content_type)
    IN ~boundary.raised /\ boundary.value # <<>>

(***************************************************************************)
(* C24.  For every well-formed multipart body (every part CRLF-terminated  *)
(* with its blank line, the boundary not occurring in any content) that    *)
(* has one part named file, carrying a filename, parse_multipart returns a *)
(* map in which file is the byte sequence that was encoded into that part, *)
(* whatever the bytes (not UTF-8, holding CR LF CR LF) and whether or not  *)
(* the body is base64-encoded.                                             *)
(***************************************************************************)
C24_FileBytesPreserved ==
    Parsed =>
      \A i \in DOMAIN SentParts :
        LET p == SentParts[i] IN
          (/\ \A j \in DOMAIN SentParts : WellFormed(SentParts[j])
           /\ p.name = "file"
           /\ p.filename \notin {None, ""}
           /\ \A j \in DOMAIN SentParts : j # i => SentParts[j].name # "file")
          => /\ ~mp_form.raised
             /\ <<"file">> \in FormKeys(mp_form.form_data)
             /\ FormGet(mp_form.form_data, <<"file">>, NoField) =
                  [type |-> "bytes", data |-> p.content]

(***************************************************************************)
(* C26.  In a decoded body, a named part whose content-disposition carries *)
(* a filename parameter, whatever its value (the empty quoted filename     *)
(* included), has its content as raw bytes in the map; a named part        *)
(* without filename parameter has the UTF-8 decoding of its content, as    *)
(* text.  (Read on the last part of each name, the one the map holds.)     *)
(***************************************************************************)
C26_FilenameMeansBytes ==
    Parsed /\ ~mp_form.raised =>
      \A i \in DOMAIN SentParts :
        LET p == SentParts[i]
            form_data == mp_form.form_data
        IN (/\ Named(p)
            /\ WellFormed(p)
            /\ \A j \in DOMAIN SentParts : j > i => SentParts[j].name # p.name)
           => /\ p.filename # None =>
                   /\ <<p.name>> \in FormKeys(form_data)
                   /\ FormGet(form_data, <<p.name>>, NoField) =
                        [type |-> "bytes", data |-> p.content]
              /\ p.filename = None /\ ~Utf8Decode(p.content).raised =>
                   /\ <<p.name>> \in FormKeys(form_data)
                   /\ FormGet(form_data, <<p.name>>, NoField) =
                        [type |-> "str", data |-> Utf8Decode(p.content).value]

(***************************************************************************)
(* C27.  Every key of the map parse_multipart returns is a non-empty field *)
(* name.  A part without name parameter, or with an empty name, is skipped *)
(* without raising and without affecting the other parts: the outcome is   *)
(* the outcome for the same body without these parts.  A name occurring in *)
(* several parts has one entry, holding the value of its last occurrence   *)
(* that yields a value (the value that part yields when sent alone).       *)
(***************************************************************************)
C27_NonEmptyNamesLastWins ==
    Parsed =>
      LET form_data == mp_form.form_data
          Alone(i) == ParseOf(<<SentParts[i]>>).form_data
          Yielding(k) == {i \in DOMAIN SentParts : k \in FormKeys(Alone(i))}
      IN /\ \A k \in FormKeys(form_data) : k # <<>>
         /\ mp_form = ParseOf(SelectSeq(SentParts, Named))
         /\ \A i \in DOMAIN SentParts : FormKeys(Alone(i)) \subseteq FormKeys(form_data)
         /\ \A i, j \in DOMAIN form_data : form_data[i].key = form_data[j].key => i = j
         /\ \A k \in FormKeys(form_data) :
              /\ Yielding(k) # {}
              /\ LET last == CHOOSE i \in Yielding(k) : \A j \in Yielding(k) : j <= i
                 IN FormGet(form_data, k, NoField) = FormGet(Alone(last), k, NoField)

\* A name sent twice with different contents, after a part without name:
\* the map holds the later value.
C27_Witness ==
    /\ Parsed
    /\ Len(SentParts) = 2
    /\ SentParts[1].name = "file" /\ SentParts[2].name = "file"
    /\ SentParts[1].filename = "r.pdf" /\ SentParts[2].filename = "r.pdf"
    /\ SentParts[1].content # SentParts[2].content
    /\ WellFormed(SentParts[1]) /\ WellFormed(SentParts[2])
    /\ FormKeys(mp_form.form_data) = {<<"file">>}
    /\ FormGet(mp_form.form_data, <<"file">>, NoField).data = SentParts[2].content

(***************************************************************************)
(* C28.  A part whose parsing fails (no blank line, a header block that is *)
(* not UTF-8, text content that is not UTF-8) is the only part skipped:    *)
(* the outcome is the outcome for the same body without the failing parts, *)
(* and the decode of a body whose content type was accepted does not       *)
(* raise.  When no part of such a body is usable the map is empty, and the *)
(* handler answers 400, No file provided.                                  *)
(***************************************************************************)
Failing(p) ==
    \/ ~p.sep
    \/ ~p.hdr_ok
    \/ p.filename = None /\ Utf8Decode(p.content).raised
C28_FailingPartSkippedAlone ==
    Parsed =>
      /\ mp_form = ParseOf(SelectSeq(SentParts, LAMBDA p : ~Failing(p)))
      /\ EnvelopeAccepted => ~mp_form.raised
      /\ (/\ EnvelopeAccepted
          /\ \A i \in DOMAIN SentParts :
               Failing(SentParts[i]) \/ ~Named(SentParts[i]))
         => /\ mp_form.form_data = EmptyForm
            /\ Checked =>
                 /\ mp_response.statusCode = 400
                 /\ mp_response.error = "No file provided"

\* A part without blank line followed by a usable part: the second is in the
\* map, the first is not, and the handler goes on with the file.
C28_Witness ==
    /\ Checked
    /\ Len(SentParts) = 2
    /\ ~SentParts[1].sep
    /\ SentParts[2] = Part("file", "r.pdf", <<NotUtf8, "a">>)
    /\ ~mp_form.raised
    /\ FormGet(mp_form.form_data, <<"file">>, NoField) =
         [type |-> "bytes", data |-> <<NotUtf8, "a">>]
    /\ mp_response.statusCode = 0

====
